---- MODULE Spec2Model ----
(***************************************************************************)
(* Model of the bulk-dispatch engine of WhatsAppService                    *)
(* (src/src/services/WhatsAppService.ts).                                  *)
(*                                                                         *)
(* Granularity.  The service runs on one JavaScript event loop: code runs  *)
(* to completion between two awaits.  Each action below is one such run:   *)
(* a service method from its call to its first suspension, or the          *)
(* continuation of a job's dispatch task from the settling of the promise  *)
(* it awaits to its next suspension.                                       *)
(*                                                                         *)
(* Strings are sequences of one-character strings, so that the regular     *)
(* expression /\{\{(\w+)\}\}/g is modelled by what it matches.             *)
(***************************************************************************)
EXTENDS Integers, Sequences, FiniteSets, TLC

\* ---------------------------------------------------------------- bounds
\* jobs submitted in one behaviour
MaxJobs == 2
\* longest data / numbers array a request carries
MaxLen == 2
\* session identifiers callers use
NumSessions == 1
\* largest total whose percentages are examined
PctTotal == 40

\* ---------------------------------------------------- program constants
\* config.maxSessions (MAX_SESSIONS default)
maxSessions == 10
\* default delayRange { min: 2, max: 9 }
DefaultDelayMin == 2
DefaultDelayMax == 9

\* ------------------------------------------------------- JavaScript values
\* a JavaScript string value
Str(s) == [tag |-> "string", chars |-> s]
\* the JavaScript value undefined
Undefined == [tag |-> "undefined"]
\* a JavaScript object with the given own properties (key -> value)
Obj(f) == [tag |-> "object", fields |-> f]
\* a JavaScript array
Arr(items) == [tag |-> "array", items |-> items]

\* the property name "Phone"
PhoneKey == <<"P", "h", "o", "n", "e">>

\* JavaScript truthiness of a value: undefined and "" are falsy
Truthy(v) ==
  CASE v.tag = "undefined" -> FALSE
    [] v.tag = "string" -> v.chars # <<>>
    [] OTHER -> TRUE

\* a JavaScript function value
Function(name) == [tag |-> "function", name |-> name]

\* the property names every object inherits from Object.prototype (the one
\* the model's templates name)
ObjectPrototypeKeys == {<<"v", "a", "l", "u", "e", "O", "f">>}

\* item[key]: the own property value, else the inherited one, else undefined
GetProp(item, key) ==
  IF item.tag = "object" /\ key \in DOMAIN item.fields
  THEN item.fields[key]
  ELSE IF item.tag = "object" /\ key \in ObjectPrototypeKeys
  THEN Function(key)
  ELSE Undefined

\* key in item: own and inherited properties
HasProp(item, key) ==
  /\ item.tag = "object"
  /\ (key \in DOMAIN item.fields \/ key \in ObjectPrototypeKeys)

\* String(value)
ToJsString(v) ==
  CASE v.tag = "string" -> v.chars
    [] v.tag = "undefined" -> <<"u", "n", "d", "e", "f", "i", "n", "e", "d">>
    [] v.tag = "function" ->
         <<"f", "u", "n", "c", "t", "i", "o", "n", " ">> \o v.name
           \o <<"(", ")", " ", "{", " ", "[", "n", "a", "t", "i", "v", "e",
                " ", "c", "o", "d", "e", "]", " ", "}">>
    [] OTHER -> <<"[", "o", "b", "j", "e", "c", "t", "]">>

\* ------------------------------------------------ the placeholder regex
\* (mutant of WordChars) the space counts as a name character
WordCharsWithSpace ==
  {"A", "B", "N", "O", "P", "a", "b", "c", "d", "e", "f", "h", "i",
   "l", "n", "o", "u", "v", "0", "1", "2", "3", "_", " "}

\* \w : letters, digits and underscore (the letters the model's inputs use)
WordChars == {"A", "B", "N", "O", "P", "a", "b", "c", "d", "e", "f", "h", "i",
              "l", "n", "o", "u", "v", "0", "1", "2", "3", "_"}

\* length of the longest run of \w characters of s starting at position p
RECURSIVE WordRun(_, _)
WordRun(s, p) ==
  IF p <= Len(s) /\ s[p] \in WordChars THEN 1 + WordRun(s, p + 1) ELSE 0

\* /\{\{(\w+)\}\}/ anchored at position p: the length of the captured name,
\* 0 when there is no match at p
MatchAt(s, p) ==
  IF p + 1 <= Len(s) /\ s[p] = "{" /\ s[p + 1] = "{"
  THEN LET n == WordRun(s, p + 2)
       IN IF n >= 1 /\ p + 2 + n + 1 <= Len(s)
             /\ s[p + 2 + n] = "}" /\ s[p + 2 + n + 1] = "}"
          THEN n
          ELSE 0
  ELSE 0

\* the captured names of all matches of the global regex, left to right
RECURSIVE Matches(_, _)
Matches(s, p) ==
  IF p > Len(s) THEN <<>>
  ELSE LET n == MatchAt(s, p)
       IN IF n > 0
          THEN <<SubSeq(s, p + 2, p + 1 + n)>> \o Matches(s, p + n + 4)
          ELSE Matches(s, p + 1)

\* new Set<string>() filled by placeholders.add in match order: the distinct
\* names in order of first occurrence
RECURSIVE Distinct(_)
Distinct(names) ==
  IF names = <<>> THEN <<>>
  ELSE LET rest == Distinct(SubSeq(names, 1, Len(names) - 1))
           last == names[Len(names)]
       IN IF \E k \in 1..Len(rest) : rest[k] = last
          THEN rest
          ELSE Append(rest, last)

\* ------------------------------------------------------ replacePlaceholders
\* outcomes of a call that may throw
Ok(v) == [ok |-> TRUE, value |-> v]
Throw(e) == [ok |-> FALSE, error |-> e]

\* Error(`Placeholder {{name}} not found in data object`)
RenderError(name) == [kind |-> "PlaceholderNotInDataObject", name |-> name]

\* message.replace(regex, replacer) from position p on, out being the text
\* produced so far; the replacer throws when data[placeholder] === undefined
RECURSIVE ReplaceFrom(_, _, _, _)
ReplaceFrom(message, data, p, out) ==
  IF p > Len(message) THEN Ok(out)
  ELSE LET n == MatchAt(message, p)
           name == SubSeq(message, p + 2, p + 1 + n)
           value == GetProp(data, name)
       IN IF n = 0
          THEN ReplaceFrom(message, data, p + 1, Append(out, message[p]))
          ELSE IF value.tag = "undefined"
          THEN Throw(RenderError(name))
          ELSE ReplaceFrom(message, data, p + n + 4,
                           out \o ToJsString(value))

\* (mutant of replacePlaceholders) a rendered text that still has an opening
\* marker is an error
replacePlaceholdersStrict(message, data) ==
  LET r == ReplaceFrom(message, data, 1, <<>>)
  IN IF r.ok /\ \E p \in 1..(Len(r.value) - 1) :
                  r.value[p] = "{" /\ r.value[p + 1] = "{"
     THEN Throw(RenderError(<<>>))
     ELSE r

replacePlaceholders(message, data) == ReplaceFrom(message, data, 1, <<>>)

\* ---------------------------------------------------- validatePersonalizedData
EmptyDataError == [kind |-> "DataArrayRequired"]
InvalidItemError(index) == [kind |-> "ItemMustBeObject", index |-> index]
MissingPhoneError(index) == [kind |-> "PhoneMissing", index |-> index]
MissingPlaceholderError(name, index) ==
  [kind |-> "PlaceholderNotInItem", name |-> name, index |-> index]

\* the first placeholder of the set that is not a key of item (0 when none)
FirstMissing(placeholders, item) ==
  IF \E k \in 1..Len(placeholders) : ~HasProp(item, placeholders[k])
  THEN CHOOSE k \in 1..Len(placeholders) :
         /\ ~HasProp(item, placeholders[k])
         /\ \A h \in 1..(k - 1) : HasProp(item, placeholders[h])
  ELSE 0

\* (mutant of CheckItem) the placeholders are checked before the Phone field
CheckItemPlaceholdersFirst(item, index, placeholders) ==
  IF item.tag # "object" THEN Throw(InvalidItemError(index - 1))
  ELSE LET m == FirstMissing(placeholders, item)
       IN IF m > 0
          THEN Throw(MissingPlaceholderError(placeholders[m], index - 1))
          ELSE IF ~Truthy(GetProp(item, PhoneKey))
          THEN Throw(MissingPhoneError(index - 1))
          ELSE Ok(TRUE)

\* the body of data.forEach for one item (index is 1-based here, the error
\* carries the 0-based index of the code)
CheckItem(item, index, placeholders) ==
  IF item.tag # "object" THEN Throw(InvalidItemError(index - 1))
  ELSE IF ~Truthy(GetProp(item, PhoneKey))
  THEN Throw(MissingPhoneError(index - 1))
  ELSE LET m == FirstMissing(placeholders, item)
       IN IF m > 0
          THEN Throw(MissingPlaceholderError(placeholders[m], index - 1))
          ELSE Ok(TRUE)

\* (mutant of CheckItems) two passes: every item is checked for being an
\* object with a Phone before any placeholder is looked up
CheckItemsPhonePassFirst(items, index, placeholders) ==
  LET rest == index..Len(items)
      noPhone == {i \in rest : \/ items[i].tag # "object"
                               \/ ~Truthy(GetProp(items[i], PhoneKey))}
      noToken == {i \in rest : FirstMissing(placeholders, items[i]) > 0}
      First(S) == CHOOSE i \in S : \A h \in S : i <= h
  IN IF noPhone # {}
     THEN IF items[First(noPhone)].tag # "object"
          THEN Throw(InvalidItemError(First(noPhone) - 1))
          ELSE Throw(MissingPhoneError(First(noPhone) - 1))
     ELSE IF noToken # {}
     THEN Throw(MissingPlaceholderError(
                  placeholders[FirstMissing(placeholders,
                                            items[First(noToken)])],
                  First(noToken) - 1))
     ELSE Ok(TRUE)

\* data.forEach(...) from index on: the first throw ends the iteration
RECURSIVE CheckItems(_, _, _)
CheckItems(items, index, placeholders) ==
  IF index > Len(items) THEN Ok(TRUE)
  ELSE LET r == CheckItem(items[index], index, placeholders)
       IN IF r.ok THEN CheckItems(items, index + 1, placeholders) ELSE r

validatePersonalizedData(data, message) ==
  IF data.tag # "array" \/ Len(data.items) = 0
  THEN Throw(EmptyDataError)
  ELSE CheckItems(data.items, 1, Distinct(Matches(message, 1)))

\* ------------------------------------------- IEEE-754 double arithmetic
\* JavaScript numbers are binary64.  A double is [sig, frac]: a significand,
\* a sequence of bits least significant first, denoting sig * 2^-frac.  The
\* operators give the correctly rounded (round-to-nearest, ties-to-even)
\* quotient and product that the hardware gives.

\* significand width of binary64
SigBits == 53
\* width of the limbs the multiplication works on
LimbBits == 13

\* the integer a bit sequence denotes (sequences of at most LimbBits bits)
RECURSIVE BitsToInt(_)
BitsToInt(a) == IF a = <<>> THEN 0 ELSE a[1] + 2 * BitsToInt(Tail(a))

\* bits + 1, one bit longer when every bit is set
Increment(bits) ==
  IF \A k \in 1..Len(bits) : bits[k] = 1
  THEN [k \in 1..(Len(bits) + 1) |-> IF k = Len(bits) + 1 THEN 1 ELSE 0]
  ELSE LET z == CHOOSE k \in 1..Len(bits) :
                  bits[k] = 0 /\ \A h \in 1..(k - 1) : bits[h] = 1
       IN [k \in 1..Len(bits) |->
             IF k < z THEN 0 ELSE IF k = z THEN 1 ELSE bits[k]]

\* without the zero bits at the most significant end
Normalize(bits) ==
  IF \A k \in 1..Len(bits) : bits[k] = 0 THEN <<>>
  ELSE LET top == CHOOSE k \in 1..Len(bits) :
                    bits[k] = 1 /\ \A h \in (k + 1)..Len(bits) : bits[h] = 0
       IN SubSeq(bits, 1, top)

\* round the exact value bits * 2^-frac (sticky: a non-zero part below the
\* last bit was already dropped) to SigBits significant bits, ties to even
RoundToSig(bits, frac, sticky) ==
  LET n == Len(bits)
      d == n - SigBits
  IN IF d <= 0 THEN [sig |-> bits, frac |-> frac]
     ELSE LET kept == SubSeq(bits, d + 1, n)
              guard == bits[d]
              low == sticky \/ \E k \in 1..(d - 1) : bits[k] = 1
              up == guard = 1 /\ (low \/ kept[1] = 1)
              inc == IF up THEN Increment(kept) ELSE kept
          IN IF Len(inc) > SigBits
             THEN [sig |-> Tail(inc), frac |-> frac - d - 1]
             ELSE [sig |-> inc, frac |-> frac - d]

\* 2^i mod t
RECURSIVE Pow2Mod(_, _)
Pow2Mod(i, t) ==
  IF i = 0 THEN 1 % t
  ELSE LET h == Pow2Mod(i \div 2, t)
       IN (((h * h) % t) * (IF i % 2 = 1 THEN 2 ELSE 1)) % t

\* the remainder of the long division k / t after i quotient bits (k < t)
Remainder(k, t, i) == (k * Pow2Mod(i, t)) % t

\* the i-th bit after the binary point of k / t
QuotientBit(k, t, i) == IF 2 * Remainder(k, t, i - 1) >= t THEN 1 ELSE 0

\* the number of zero bits between the binary point and the first one bit
RECURSIVE LeadingZeros(_, _)
LeadingZeros(r, t) == IF 2 * r >= t THEN 0 ELSE 1 + LeadingZeros(2 * r, t)

\* the double k / t for integers 0 < k < t
DoubleDiv(k, t) ==
  LET z == LeadingZeros(k, t)
      n == SigBits + 1
      bits == [j \in 1..n |-> QuotientBit(k, t, z + n + 1 - j)]
  IN RoundToSig(bits, z + n, Remainder(k, t, z + n) # 0)

\* the limbs (least significant first) of a bit sequence
Limbs(bits) ==
  [j \in 1..((Len(bits) + LimbBits - 1) \div LimbBits) |->
     BitsToInt(SubSeq(bits, LimbBits * (j - 1) + 1,
                      IF LimbBits * j < Len(bits) THEN LimbBits * j
                      ELSE Len(bits)))]

\* limbs * m + carry, limb by limb
RECURSIVE MulLimbs(_, _, _)
MulLimbs(limbs, m, carry) ==
  IF limbs = <<>>
  THEN IF carry = 0 THEN <<>> ELSE <<carry>>
  ELSE LET p == limbs[1] * m + carry
       IN <<p % (2 ^ LimbBits)>> \o MulLimbs(Tail(limbs), m, p \div (2 ^ LimbBits))

\* the bit sequence of a limb sequence
LimbsToBits(limbs) ==
  [i \in 1..(LimbBits * Len(limbs)) |->
     (limbs[((i - 1) \div LimbBits) + 1] \div (2 ^ ((i - 1) % LimbBits))) % 2]

\* the double x * 100
DoubleTimes100(x) ==
  RoundToSig(Normalize(LimbsToBits(MulLimbs(Limbs(x.sig), 100, 0))),
             x.frac, FALSE)

\* Math.round(x) for a positive double x < 2^LimbBits: floor(x + 0.5)
MathRound(x) ==
  LET n == Len(x.sig)
      half == IF x.frac >= 1 /\ x.frac <= n THEN x.sig[x.frac] ELSE 0
      int == IF x.frac >= n THEN 0
             ELSE BitsToInt(SubSeq(x.sig, x.frac + 1, n))
  IN int + half

\* Math.round((k / total) * 100)
RoundedPercent(k, total) ==
  IF k = 0 THEN 0
  ELSE IF k = total THEN 100
  ELSE MathRound(DoubleTimes100(DoubleDiv(k, total)))

\* the values of RoundedPercent for the totals up to PctTotal
PercentageTable ==
  [total \in 1..PctTotal |-> [k \in 0..total |-> RoundedPercent(k, total)]]

\* Math.round(((sent + failed) / total) * 100)
Percentage(sent, failed, total) ==
  IF total \in DOMAIN PercentageTable
  THEN PercentageTable[total][sent + failed]
  ELSE RoundedPercent(sent + failed, total)

\* ------------------------------------------------------------ the inputs
\* granularity of Math.random(): it returns u / RandomGrid, u in 0..RandomGrid-1
RandomGrid == 2

SessionIds == 1..NumSessions
JobIds == 1..MaxJobs

\* message templates callers submit
TplPlain == <<"h", "i">>
TplName == <<"h", "i", " ", "{", "{", "N", "}", "}">>
Templates == {TplPlain, TplName}

KeyN == <<"N">>
\* data items callers submit
RecA == Obj([k \in {PhoneKey, KeyN} |->
               IF k = PhoneKey THEN Str(<<"1">>) ELSE Str(<<"A">>)])
RecB == Obj([k \in {PhoneKey, KeyN} |->
               IF k = PhoneKey THEN Str(<<"2">>) ELSE Undefined])
RecNoName == Obj([k \in {PhoneKey} |-> Str(<<"3">>)])
RecNoPhone == Obj([k \in {KeyN} |-> Str(<<"A">>)])
NotAnObject == Str(<<"a">>)
\* the items whose Phone is present, and all items
GoodItems == {RecA, RecB}
Items == {RecA, RecB, RecNoName, RecNoPhone, NotAnObject}

\* templates and items of the validation calls: two tokens with one repeated,
\* a token naming an inherited property; every combination of Phone (absent,
\* empty, set) with the keys N and A
KeyA == <<"A">>
TplTwo == <<"{", "{", "A", "}", "}", "{", "{", "N", "}", "}",
            "{", "{", "A", "}", "}">>
TplProto == <<"{", "{", "v", "a", "l", "u", "e", "O", "f", "}", "}">>
ValidationTemplates == {TplName, TplTwo, TplProto}
PhoneValues == {Str(<<"1">>), Str(<<>>)}
ValidationItems ==
  {NotAnObject} \cup
  {Obj(f) : f \in UNION {{g \in [keys -> PhoneValues \cup {Str(<<"A">>)}] :
                             \A k \in keys :
                               (g[k] \in PhoneValues) = (k = PhoneKey)} :
                           keys \in SUBSET {PhoneKey, KeyN, KeyA}}}

\* all sequences over S of length at most n
SeqsUpTo(S, n) == UNION {[1..m -> S] : m \in 0..n}

\* the data property of a personalized request: every value, and the values
\* that reach the dispatch loop (or are rejected as empty)
DataValues == {Undefined} \cup {Arr(items) : items \in SeqsUpTo(Items, MaxLen)}
LoopData == {Undefined} \cup {Arr(items) : items \in SeqsUpTo(GoodItems, MaxLen)}
ValidationData ==
  {Undefined} \cup {Arr(items) : items \in SeqsUpTo(ValidationItems, MaxLen)}
\* the numbers property of a plain request
NumberValues ==
  {Undefined} \cup {Arr(ns) : ns \in SeqsUpTo({Str(<<"1">>), Str(<<"2">>)}, MaxLen)}
\* the delayRange property of a request: absent, or a range
CustomRange == [tag |-> "object", min |-> 0, max |-> 1]
DelayRanges == {Undefined, CustomRange}

\* ------------------------------------------------------------- the state
VARIABLES
  sessions,   \* this.sessions: session id -> session.status
  bulkJobs,   \* this.bulkJobs: job id -> BulkMessageStatus
  tasks,      \* job id -> the frame of the job's dispatch task
  statusLog,  \* job id -> the values assigned to jobStatus.status, in order
  sends,      \* job id -> the calls of sendTextMessage the task made, in order
  held,       \* the job records the last status read returned (by reference)
  resp        \* what the last service call returned

vars == <<sessions, bulkJobs, tasks, statusLog, sends, held, resp>>

\* no service call has returned in the last step
NoResp == [op |-> "none"]

\* error values of responses and results
NoError == [kind |-> "none"]
SessionNotFound == [kind |-> "SessionNotFound"]
SessionNotReady == [kind |-> "SessionNotReady"]
NoNumbersError == [kind |-> "NoPhoneNumbers"]
ClientError == [kind |-> "ClientError"]

\* "Error occurred during placeholder replacement"
ErrorMarker ==
  <<"E", "r", "r", "o", "r", " ", "o", "c", "c", "u", "r", "r", "e", "d", " ",
    "d", "u", "r", "i", "n", "g", " ", "p", "l", "a", "c", "e", "h", "o", "l",
    "d", "e", "r", " ", "r", "e", "p", "l", "a", "c", "e", "m", "e", "n", "t">>

Init ==
  /\ sessions = <<>>
  /\ bulkJobs = <<>>
  /\ tasks = <<>>
  /\ statusLog = <<>>
  /\ sends = <<>>
  /\ held = {}
  /\ resp = NoResp

\* f with key k set to v (Map.set)
MapSet(f, k, v) == [x \in DOMAIN f \cup {k} |-> IF x = k THEN v ELSE f[x]]
\* f without key k (Map.delete)
MapDelete(f, k) == [x \in DOMAIN f \ {k} |-> f[x]]

\* ----------------------------------------------------------- the sessions
\* a session operation does not touch the jobs
SessionStep ==
  /\ resp' = NoResp
  /\ UNCHANGED <<bulkJobs, tasks, statusLog, sends, held>>

createSession(id) ==
  /\ id \notin DOMAIN sessions
  /\ Cardinality(DOMAIN sessions) < maxSessions
  /\ sessions' = MapSet(sessions, id, "initializing")
  /\ SessionStep

\* client.initialize() rejects: the catch removes the session
initializeFails(id) ==
  /\ id \in DOMAIN sessions
  /\ sessions[id] = "initializing"
  /\ sessions' = MapDelete(sessions, id)
  /\ SessionStep

\* a client event handler of setupClientEvents sets session.status
ClientEvent(id, status) ==
  /\ id \in DOMAIN sessions
  /\ sessions' = [sessions EXCEPT ![id] = status]
  /\ resp' = NoResp
  /\ UNCHANGED <<bulkJobs, tasks, statusLog, sends, held>>

onQr(id) == ClientEvent(id, "qr")
onAuthenticated(id) == ClientEvent(id, "authenticated")
onReady(id) == ClientEvent(id, "ready")
onDisconnected(id) == ClientEvent(id, "disconnected")

\* (mutant of logout) the jobs of the session leave the registry with it
logoutDropsJobs(id) ==
  LET kept == {j \in DOMAIN bulkJobs : tasks[j].sessionId # id}
  IN /\ id \in DOMAIN sessions
     /\ sessions' = MapDelete(sessions, id)
     /\ bulkJobs' = [j \in kept |-> bulkJobs[j]]
     /\ tasks' = [j \in kept |-> tasks[j]]
     /\ statusLog' = [j \in kept |-> statusLog[j]]
     /\ sends' = [j \in kept |-> sends[j]]
     /\ resp' = NoResp
     /\ UNCHANGED held

logout(id) ==
  /\ id \in DOMAIN sessions
  /\ sessions' = MapDelete(sessions, id)
  /\ SessionStep

\* (mutant of destroySession) the jobs of the session are marked failed
destroySessionFailsJobs(id) ==
  /\ id \in DOMAIN sessions
  /\ sessions' = MapDelete(sessions, id)
  /\ bulkJobs' = [j \in DOMAIN bulkJobs |->
                    IF tasks[j].sessionId = id
                    THEN [bulkJobs[j] EXCEPT !.status = "failed"]
                    ELSE bulkJobs[j]]
  /\ resp' = NoResp
  /\ UNCHANGED <<tasks, statusLog, sends, held>>

destroySession(id) ==
  /\ id \in DOMAIN sessions
  /\ sessions' = MapDelete(sessions, id)
  /\ SessionStep

\* --------------------------------------------------------- sendTextMessage
\* (mutant of SessionGate) only the existence of the session is checked
SessionGateExistsOnly(sess, sessionId) ==
  IF sessionId \notin DOMAIN sess THEN [kind |-> "SessionNotFound"]
  ELSE [kind |-> "none"]

\* the checks sendTextMessage makes before it calls the client: the error it
\* returns at once, NoError when it goes on to client.sendMessage
SessionGate(sess, sessionId) ==
  IF sessionId \notin DOMAIN sess THEN SessionNotFound
  ELSE IF sess[sessionId] # "ready" THEN SessionNotReady
  ELSE NoError

\* what a call of sendTextMessage finds under the session id
SessionSeen(sess, sessionId) ==
  IF sessionId \notin DOMAIN sess THEN "absent"
  ELSE IF sess[sessionId] = "ready" THEN "ready"
  ELSE "unready"

\* the SendMessageResponse values
SendOk == [success |-> TRUE, messageId |-> "id", error |-> NoError]
SendFailed(e) == [success |-> FALSE, messageId |-> "undefined", error |-> e]

\* ------------------------------------------------------- the job registry
\* the BulkMessageStatus a submission creates
\* (mutant of EstimatedDuration) Math.floor in place of Math.ceil
EstimatedDurationFloor(totalNumbers, range) ==
  (totalNumbers * (range.min + range.max)) \div 2

\* Math.ceil(totalNumbers * ((min + max) / 2)) for integer min and max
EstimatedDuration(totalNumbers, range) ==
  (totalNumbers * (range.min + range.max) + 1) \div 2

\* startedAt and estimatedCompletion are in milliseconds counted from the
\* clock reading of the creation: new Date(), Date.now() + estimatedDuration * 1000
NewJob(jobId, totalNumbers, estimatedDuration) ==
  [jobId |-> jobId,
   status |-> "pending",
   progress |-> [sent |-> 0, failed |-> 0, total |-> totalNumbers,
                 percentage |-> 0],
   results |-> <<>>,
   startedAt |-> 0,
   estimatedCompletion |-> 0 + estimatedDuration * 1000,
   completedAt |-> "unset"]

\* (mutant of PushResult) every answered send is counted as sent
PushResultCountsAnswers(job, number, r, text) ==
  [job EXCEPT
     !.results = Append(@, [number |-> number,
                            success |-> r.success,
                            messageId |-> r.messageId,
                            error |-> r.error,
                            personalizedMessage |-> text]),
     !.progress.sent = @ + 1,
     !.progress.percentage =
        Percentage(job.progress.sent + 1, job.progress.failed,
                   job.progress.total)]

\* (mutant of PushResult) the result of a failed send carries the error
\* marker instead of the text that was attempted
PushResultMarkerOnFailure(job, number, r, text) ==
  LET sent == IF r.success THEN job.progress.sent + 1 ELSE job.progress.sent
      failed == IF r.success THEN job.progress.failed
                ELSE job.progress.failed + 1
  IN [job EXCEPT
        !.results = Append(@, [number |-> number,
                               success |-> r.success,
                               messageId |-> r.messageId,
                               error |-> r.error,
                               personalizedMessage |->
                                 IF r.success THEN text ELSE ErrorMarker]),
        !.progress.sent = sent,
        !.progress.failed = failed,
        !.progress.percentage = Percentage(sent, failed, job.progress.total)]

\* the try branch after the send: results.push, sent++ or failed++, percentage
PushResult(job, number, r, text) ==
  LET sent == IF r.success THEN job.progress.sent + 1 ELSE job.progress.sent
      failed == IF r.success THEN job.progress.failed
                ELSE job.progress.failed + 1
  IN [job EXCEPT
        !.results = Append(@, [number |-> number,
                               success |-> r.success,
                               messageId |-> r.messageId,
                               error |-> r.error,
                               personalizedMessage |-> text]),
        !.progress.sent = sent,
        !.progress.failed = failed,
        !.progress.percentage = Percentage(sent, failed, job.progress.total)]

\* (mutant of PushCaught) the catch pushes the result and forgets failed++
PushCaughtNoCount(job, number, e, text) ==
  [job EXCEPT
     !.results = Append(@, [number |-> number,
                            success |-> FALSE,
                            messageId |-> "undefined",
                            error |-> e,
                            personalizedMessage |-> text])]

\* (mutant of PushCaught) the catch puts its result in front of the others
PushCaughtPrepend(job, number, e, text) ==
  [job EXCEPT
     !.results = <<[number |-> number,
                    success |-> FALSE,
                    messageId |-> "undefined",
                    error |-> e,
                    personalizedMessage |-> text]>> \o @,
     !.progress.failed = @ + 1,
     !.progress.percentage =
        Percentage(job.progress.sent, job.progress.failed + 1,
                   job.progress.total)]

\* the catch branch: results.push with success false, failed++, percentage
PushCaught(job, number, e, text) ==
  [job EXCEPT
     !.results = Append(@, [number |-> number,
                            success |-> FALSE,
                            messageId |-> "undefined",
                            error |-> e,
                            personalizedMessage |-> text]),
     !.progress.failed = @ + 1,
     !.progress.percentage =
        Percentage(job.progress.sent, job.progress.failed + 1,
                   job.progress.total)]

\* --------------------------------------------------- the dispatch task
\* A context c = [job, task, log, sends] is threaded through one run of the
\* task: the job record, the task's frame, the log of status assignments and
\* the log of sendTextMessage calls.
\* task.i is the loop variable i; task.pc is where the task is suspended:
\*   "sending"  in await sendTextMessage, client.sendMessage in flight
\*   "delay"    in await this.delay(delay)
\*   "done"     returned after the loop
\*   "returned" returned at the start-up lookup

\* F applied to the value of x (x is evaluated once, whatever F does with it)
Once(x, F(_)) == CHOOSE y \in {F(v) : v \in {x}} : TRUE

\* jobStatus.status = st
SetStatus(c, st) ==
  [c EXCEPT !.job.status = st, !.log = Append(@, st)]

\* (mutant of getRandomDelay) the draw is not shifted by min
getRandomDelayNoMin(min, max, u) == (u * (max - min + 1)) \div RandomGrid

\* Math.floor(Math.random() * (max - min + 1)) + min, Math.random() = u/RandomGrid
getRandomDelay(min, max, u) == ((u * (max - min + 1)) \div RandomGrid) + min

\* (mutant of Complete) the task ends the job and leaves completedAt alone
CompleteWithoutTimestamp(c) ==
  LET c1 == SetStatus(c, "completed")
  IN [c1 EXCEPT !.task.pc = "done", !.task.text = <<>>]

\* (mutant of Complete) a job none of whose records was sent ends failed
CompleteOrFail(c) ==
  LET c1 == SetStatus(c, IF c.job.progress.sent = 0 THEN "failed"
                         ELSE "completed")
  IN [c1 EXCEPT !.job.completedAt = "set", !.task.pc = "done",
                !.task.text = <<>>]

\* after the loop: status completed, completedAt
Complete(c) ==
  LET c1 == SetStatus(c, "completed")
  IN [c1 EXCEPT !.job.completedAt = "set", !.task.pc = "done",
                !.task.text = <<>>]

\* (mutant of AfterSend) a failed send ends the loop: the task returns
AfterSendAbortOnFailure(c, r, u) ==
  LET t == c.task
      item == t.items[t.i + 1]
      number == IF t.kind = "personalized" THEN GetProp(item, PhoneKey)
                ELSE item
      c1 == [c EXCEPT !.job = PushResult(@, number, r, t.text),
                      !.sends[Len(c.sends)].outcome =
                         IF r.success THEN "ok" ELSE "failed"]
  IN IF ~r.success
     THEN [c1 EXCEPT !.task.pc = "done", !.task.text = <<>>]
     ELSE IF t.i < Len(t.items) - 1
     THEN [c1 EXCEPT !.task.pc = "delay",
                     !.task.text = <<>>,
                     !.task.delay =
                        getRandomDelay(t.delayRange.min, t.delayRange.max, u)]
     ELSE Complete([c1 EXCEPT !.task.i = @ + 1])

\* (mutant of AfterSend) the result carries the first record's number
AfterSendFirstNumber(c, r, u) ==
  LET t == c.task
      item == t.items[1]
      number == IF t.kind = "personalized" THEN GetProp(item, PhoneKey)
                ELSE item
      c1 == [c EXCEPT !.job = PushResult(@, number, r, t.text),
                      !.sends[Len(c.sends)].outcome =
                         IF r.success THEN "ok" ELSE "failed"]
  IN IF t.i < Len(t.items) - 1
     THEN [c1 EXCEPT !.task.pc = "delay",
                     !.task.text = <<>>,
                     !.task.delay =
                        getRandomDelay(t.delayRange.min, t.delayRange.max, u)]
     ELSE Complete([c1 EXCEPT !.task.i = @ + 1])

\* (mutant of AfterSend) a record whose send failed is sent once more
AfterSendRetryOnce(c, r, u) ==
  LET t == c.task
      item == t.items[t.i + 1]
      number == IF t.kind = "personalized" THEN GetProp(item, PhoneKey)
                ELSE item
      last == c.sends[Len(c.sends)]
      tried == Cardinality({k \in 1..Len(c.sends) : c.sends[k].i = t.i})
      c1 == [c EXCEPT !.job = PushResult(@, number, r, t.text),
                      !.sends[Len(c.sends)].outcome =
                         IF r.success THEN "ok" ELSE "failed"]
  IN IF ~r.success /\ tried = 1
     THEN [c EXCEPT !.sends = Append([@ EXCEPT ![Len(@)].outcome = "failed"],
                                     [last EXCEPT !.outcome = "pending"]),
                    !.task.pc = "sending"]
     ELSE IF t.i < Len(t.items) - 1
     THEN [c1 EXCEPT !.task.pc = "delay",
                     !.task.text = <<>>,
                     !.task.delay =
                        getRandomDelay(t.delayRange.min, t.delayRange.max, u)]
     ELSE Complete([c1 EXCEPT !.task.i = @ + 1])

\* the rest of the try block once sendTextMessage has returned r for record
\* i: push the result, then the pacing delay unless the record is the last
AfterSend(c0, r, u) ==
  Once(c0, LAMBDA c :
    LET t == c.task
        item == t.items[t.i + 1]
        number == IF t.kind = "personalized" THEN GetProp(item, PhoneKey)
                  ELSE item
        c1 == [c EXCEPT !.job = PushResult(@, number, r, t.text),
                        !.sends[Len(c.sends)].outcome =
                           IF r.success THEN "ok" ELSE "failed"]
    IN IF t.i < Len(t.items) - 1
       THEN [c1 EXCEPT !.task.pc = "delay",
                       !.task.text = <<>>,
                       !.task.delay =
                          getRandomDelay(t.delayRange.min, t.delayRange.max, u)]
       ELSE Complete([c1 EXCEPT !.task.i = @ + 1]))

\* (mutant of RunLoop) a record whose sendTextMessage fails at the session
\* checks ends the loop: the job is marked failed and the task returns
RECURSIVE RunLoopAbortOnGate(_, _, _)
RunLoopAbortOnGate(c, sess, u) ==
  LET t == c.task
  IN IF t.i >= Len(t.items) THEN Complete(c)
     ELSE LET item == t.items[t.i + 1]
              number == IF t.kind = "personalized"
                        THEN GetProp(item, PhoneKey) ELSE item
              rendered == IF t.kind = "personalized"
                          THEN replacePlaceholders(t.message, item)
                          ELSE Ok(t.message)
          IN IF ~rendered.ok
             THEN RunLoopAbortOnGate(
                    [c EXCEPT !.job = PushCaught(@, number, rendered.error,
                                                 ErrorMarker),
                              !.task.i = @ + 1],
                    sess, u)
             ELSE LET gate == SessionGate(sess, t.sessionId)
                      c1 == [c EXCEPT
                               !.task.text = rendered.value,
                               !.sends = Append(@,
                                  [i |-> t.i, to |-> number,
                                   seen |-> SessionSeen(sess, t.sessionId),
                                   outcome |-> "pending"])]
                  IN IF gate.kind # "none"
                     THEN [SetStatus(c1, "failed") EXCEPT
                             !.task.pc = "done", !.task.text = <<>>,
                             !.sends[Len(c1.sends)].outcome = "failed"]
                     ELSE [c1 EXCEPT !.task.pc = "sending"]

\* (mutant of RunLoop) the catch is followed by the pacing delay, like the
\* try branch
RunLoopPacesAfterCatch(c, sess, u) ==
  LET t == c.task
  IN IF t.i >= Len(t.items) THEN Complete(c)
     ELSE LET item == t.items[t.i + 1]
              number == IF t.kind = "personalized"
                        THEN GetProp(item, PhoneKey) ELSE item
              rendered == IF t.kind = "personalized"
                          THEN replacePlaceholders(t.message, item)
                          ELSE Ok(t.message)
          IN IF ~rendered.ok
             THEN LET c1 == [c EXCEPT
                               !.job = PushCaught(@, number, rendered.error,
                                                  ErrorMarker)]
                  IN IF t.i < Len(t.items) - 1
                     THEN [c1 EXCEPT
                             !.task.pc = "delay",
                             !.task.delay =
                                getRandomDelay(t.delayRange.min,
                                               t.delayRange.max, u)]
                     ELSE Complete([c1 EXCEPT !.task.i = @ + 1])
             ELSE LET gate == SessionGate(sess, t.sessionId)
                      c1 == [c EXCEPT
                               !.task.text = rendered.value,
                               !.sends = Append(@,
                                  [i |-> t.i, to |-> number,
                                   seen |-> SessionSeen(sess, t.sessionId),
                                   outcome |-> "pending"])]
                  IN IF gate.kind # "none"
                     THEN AfterSend(c1, SendFailed(gate), u)
                     ELSE [c1 EXCEPT !.task.pc = "sending"]

\* (mutant of RunLoop) a record whose rendering throws is sent with the
\* error marker as its text
RunLoopSendsMarker(c, sess, u) ==
  LET t == c.task
  IN IF t.i >= Len(t.items) THEN Complete(c)
     ELSE LET item == t.items[t.i + 1]
              number == IF t.kind = "personalized"
                        THEN GetProp(item, PhoneKey) ELSE item
              rendered == IF t.kind = "personalized"
                          THEN replacePlaceholders(t.message, item)
                          ELSE Ok(t.message)
              gate == SessionGate(sess, t.sessionId)
              c1 == [c EXCEPT
                       !.task.text = IF rendered.ok THEN rendered.value
                                     ELSE ErrorMarker,
                       !.sends = Append(@,
                          [i |-> t.i, to |-> number,
                           seen |-> SessionSeen(sess, t.sessionId),
                           outcome |-> "pending"])]
          IN IF gate.kind # "none"
             THEN AfterSend(c1, SendFailed(gate), u)
             ELSE [c1 EXCEPT !.task.pc = "sending"]

\* (mutant of RunLoop) the send of the next record is started together
\* with the send of the record at hand
RunLoopPipelined(c, sess, u) ==
  LET t == c.task
  IN IF t.i >= Len(t.items) THEN Complete(c)
     ELSE LET item == t.items[t.i + 1]
              number == IF t.kind = "personalized"
                        THEN GetProp(item, PhoneKey) ELSE item
              rendered == IF t.kind = "personalized"
                          THEN replacePlaceholders(t.message, item)
                          ELSE Ok(t.message)
              gate == SessionGate(sess, t.sessionId)
              entry == [i |-> t.i, to |-> number,
                        seen |-> SessionSeen(sess, t.sessionId),
                        outcome |-> "pending"]
              ahead == IF t.i + 1 < Len(t.items)
                       THEN <<[entry EXCEPT !.i = t.i + 1], entry>>
                       ELSE <<entry>>
              c1 == [c EXCEPT
                       !.task.text = IF rendered.ok THEN rendered.value
                                     ELSE ErrorMarker,
                       !.sends = @ \o ahead]
          IN IF gate.kind # "none"
             THEN AfterSend(c1, SendFailed(gate), u)
             ELSE [c1 EXCEPT !.task.pc = "sending"]

\* the for loop from record task.i on, up to the task's next suspension.
\* A record whose rendering throws is pushed by the catch and the loop goes
\* on in the same run; a record whose sendTextMessage returns at its session
\* checks is pushed when the await resumes, in the same turn of the loop.
RECURSIVE RunLoop(_, _, _)
RunLoop(c0, sess, u) ==
  Once(c0, LAMBDA c :
    LET t == c.task
    IN IF t.i >= Len(t.items) THEN Complete(c)
       ELSE LET item == t.items[t.i + 1]
                number == IF t.kind = "personalized"
                          THEN GetProp(item, PhoneKey) ELSE item
                rendered == IF t.kind = "personalized"
                            THEN replacePlaceholders(t.message, item)
                            ELSE Ok(t.message)
            IN IF ~rendered.ok
               THEN RunLoop([c EXCEPT
                               !.job = PushCaught(@, number, rendered.error,
                                                  ErrorMarker),
                               !.task.i = @ + 1],
                            sess, u)
               ELSE LET gate == SessionGate(sess, t.sessionId)
                        c1 == [c EXCEPT
                                 !.task.text = rendered.value,
                                 !.sends = Append(@,
                                    [i |-> t.i, to |-> number,
                                     seen |-> SessionSeen(sess, t.sessionId),
                                     outcome |-> "pending"])]
                    IN IF gate.kind # "none"
                       THEN AfterSend(c1, SendFailed(gate), u)
                       ELSE [c1 EXCEPT !.task.pc = "sending"])

\* (mutant of StartTask) the task enters the loop without status running
StartTaskNoRunning(c, sess, u) ==
  IF c.task.sessionId \notin DOMAIN sess
  THEN [c EXCEPT !.task.pc = "returned"]
  ELSE RunLoop(c, sess, u)

\* processBulkMessages / processPersonalizedBulkMessages from the call to
\* the first suspension
StartTask(c, sess, u) ==
  IF c.task.sessionId \notin DOMAIN sess
  THEN [c EXCEPT !.task.pc = "returned"]
  ELSE RunLoop(SetStatus(c, "running"), sess, u)

\* the frame of a new task
NewTask(kind, sessionId, message, items, range) ==
  [kind |-> kind, sessionId |-> sessionId, message |-> message,
   items |-> items, delayRange |-> range, i |-> 0, pc |-> "start",
   text |-> <<>>, delay |-> 0]

\* request.delayRange || { min: 2, max: 9 }
RangeOrDefault(delayRange) ==
  IF delayRange.tag = "undefined"
  THEN [min |-> DefaultDelayMin, max |-> DefaultDelayMax]
  ELSE [min |-> delayRange.min, max |-> delayRange.max]

\* (mutant of Store) the progress counters are one object all jobs share
StoreSharedProgress(jobId, c) ==
  \E v \in {c} :
    /\ bulkJobs' = [x \in DOMAIN bulkJobs \cup {jobId} |->
                      IF x = jobId THEN v.job
                      ELSE [bulkJobs[x] EXCEPT !.progress = v.job.progress]]
    /\ tasks' = MapSet(tasks, jobId, v.task)
    /\ statusLog' = MapSet(statusLog, jobId, v.log)
    /\ sends' = MapSet(sends, jobId, v.sends)

\* write a context back to the registry
Store(jobId, c) ==
  \E v \in {c} :
    /\ bulkJobs' = MapSet(bulkJobs, jobId, v.job)
    /\ tasks' = MapSet(tasks, jobId, v.task)
    /\ statusLog' = MapSet(statusLog, jobId, v.log)
    /\ sends' = MapSet(sends, jobId, v.sends)

\* the context of a registered job
Context(jobId) ==
  [job |-> bulkJobs[jobId], task |-> tasks[jobId], log |-> statusLog[jobId],
   sends |-> sends[jobId]]

\* uuidv4(): an identifier no job has
FreshJobId == Cardinality(DOMAIN bulkJobs) + 1

\* ------------------------------------------------------- the submissions
\* the BulkMessageResponse values (sessionId: the session the call named)
Rejected(sessionId, e) ==
  [op |-> "submit", sessionId |-> sessionId, success |-> FALSE, jobId |-> 0,
   totalNumbers |-> 0, error |-> e]

Accepted(sessionId, jobId, totalNumbers, range) ==
  [op |-> "submit", sessionId |-> sessionId, success |-> TRUE,
   jobId |-> jobId, totalNumbers |-> totalNumbers, error |-> NoError,
   estimatedDuration |-> EstimatedDuration(totalNumbers, range)]

\* (mutant of CreateAndStart) the task is started after a removal of the
\* session that was requested with the submission has been carried out
CreateAndStartAfterRemoval(kind, sessionId, message, items, delayRange) ==
  LET jobId == FreshJobId
      range == RangeOrDefault(delayRange)
      c == [job |-> NewJob(jobId, Len(items),
                          EstimatedDuration(Len(items), range)),
            task |-> NewTask(kind, sessionId, message, items, range),
            log |-> <<"pending">>,
            sends |-> <<>>]
  IN /\ jobId \in JobIds
     /\ Store(jobId, StartTask(c, MapDelete(sessions, sessionId), 0))
     /\ resp' = Accepted(sessionId, jobId, Len(items), range)
     /\ UNCHANGED <<sessions, held>>

\* bulkJobs.set(jobId, jobStatus), then the task runs to its first await.
\* The run draws no delay: a delay follows a settled send only.
CreateAndStart(kind, sessionId, message, items, delayRange) ==
  LET jobId == FreshJobId
      range == RangeOrDefault(delayRange)
      c == [job |-> NewJob(jobId, Len(items),
                          EstimatedDuration(Len(items), range)),
            task |-> NewTask(kind, sessionId, message, items, range),
            log |-> <<"pending">>,
            sends |-> <<>>]
  IN /\ jobId \in JobIds
     /\ Store(jobId, StartTask(c, sessions, 0))
     /\ resp' = Accepted(sessionId, jobId, Len(items), range)
     /\ UNCHANGED <<sessions, held>>

\* (mutant of Reject) the job record is inserted before the checks are made
\* and stays when they fail
RejectAfterInsert(sessionId, e) ==
  /\ resp' = Rejected(sessionId, e)
  /\ FreshJobId \in JobIds
  /\ bulkJobs' = MapSet(bulkJobs, FreshJobId, NewJob(FreshJobId, 0, 0))
  /\ tasks' = MapSet(tasks, FreshJobId,
                     NewTask("personalized", sessionId, <<>>, <<>>,
                             RangeOrDefault(Undefined)))
  /\ statusLog' = MapSet(statusLog, FreshJobId, <<"pending">>)
  /\ sends' = MapSet(sends, FreshJobId, <<>>)
  /\ UNCHANGED <<sessions, held>>

\* the submission returns an error response before any job is created
Reject(sessionId, e) ==
  /\ resp' = Rejected(sessionId, e)
  /\ UNCHANGED <<sessions, bulkJobs, tasks, statusLog, sends, held>>

\* the outcome of the checks before the job is created
PersonalizedChecks(sess, sessionId, message, data) ==
  LET gate == SessionGate(sess, sessionId)
  IN IF gate.kind # "none" THEN Throw(gate)
     ELSE validatePersonalizedData(data, message)

sendPersonalizedBulkTextMessage(sessionId, message, data, delayRange) ==
  LET checks == PersonalizedChecks(sessions, sessionId, message, data)
  IN IF ~checks.ok
     THEN Reject(sessionId, checks.error)
     ELSE CreateAndStart("personalized", sessionId, message, data.items,
                         delayRange)

BulkChecks(sess, sessionId, numbers) ==
  LET gate == SessionGate(sess, sessionId)
  IN IF gate.kind # "none" THEN Throw(gate)
     ELSE IF numbers.tag = "undefined" \/ Len(numbers.items) = 0
     THEN Throw(NoNumbersError)
     ELSE Ok(TRUE)

sendBulkTextMessage(sessionId, message, numbers, delayRange) ==
  LET checks == BulkChecks(sessions, sessionId, numbers)
  IN IF ~checks.ok
     THEN Reject(sessionId, checks.error)
     ELSE CreateAndStart("plain", sessionId, message, numbers.items,
                         delayRange)

\* ----------------------------------------------------- the HTTP handler
\* the errors the controller answers before it calls the service
ControllerMessageError == [kind |-> "MissingOrInvalidMessageTemplate"]
ControllerDataError == [kind |-> "MissingOrInvalidDataArray"]

\* res.status(result.success ? 200 : 400)
HttpStatus(r) == IF r.success THEN 200 ELSE 400

\* WhatsAppController.sendPersonalizedBulkTextMessage: the checks on
\* req.body, then the service call; resp is the body the handler answers
ControllerSendPersonalizedBulkTextMessage(sessionId, message, data, delayRange) ==
  IF message.tag # "string" \/ ~Truthy(message)
  THEN Reject(sessionId, ControllerMessageError)
  ELSE IF data.tag # "array" \/ Len(data.items) = 0
  THEN Reject(sessionId, ControllerDataError)
  ELSE sendPersonalizedBulkTextMessage(sessionId, message.chars, data,
                                       delayRange)

\* ---------------------------------------------- the task's continuations
\* (mutant of SendCompletes) a delay blocks the event loop: no send settles
\* while a task is in its delay
SendCompletesUnlessDelaying(jobId, ok, u) ==
  /\ jobId \in DOMAIN tasks
  /\ tasks[jobId].pc = "sending"
  /\ \A k \in DOMAIN tasks : tasks[k].pc # "delay"
  /\ Store(jobId, AfterSend(Context(jobId),
                            IF ok THEN SendOk ELSE SendFailed(ClientError), u))
  /\ resp' = NoResp
  /\ UNCHANGED <<sessions, held>>

\* client.sendMessage settles (ok: resolves, otherwise rejects and
\* sendTextMessage's catch returns the error); the task resumes
SendCompletes(jobId, ok, u) ==
  /\ jobId \in DOMAIN tasks
  /\ tasks[jobId].pc = "sending"
  /\ Store(jobId, AfterSend(Context(jobId),
                            IF ok THEN SendOk ELSE SendFailed(ClientError), u))
  /\ resp' = NoResp
  /\ UNCHANGED <<sessions, held>>

\* the timer of this.delay fires; the loop goes on with i++
DelayElapsed(jobId, u) ==
  /\ jobId \in DOMAIN tasks
  /\ tasks[jobId].pc = "delay"
  /\ LET c == Context(jobId)
     IN Store(jobId, RunLoop([c EXCEPT !.task.i = @ + 1, !.task.delay = 0],
                             sessions, u))
  /\ resp' = NoResp
  /\ UNCHANGED <<sessions, held>>

\* ----------------------------------------------------- the status reads
getBulkJobStatus(jobId) ==
  /\ held' = IF jobId \in DOMAIN bulkJobs THEN {jobId} ELSE {}
  /\ resp' = NoResp
  /\ UNCHANGED <<sessions, bulkJobs, tasks, statusLog, sends>>

getAllBulkJobs ==
  /\ held' = DOMAIN bulkJobs
  /\ resp' = NoResp
  /\ UNCHANGED <<sessions, bulkJobs, tasks, statusLog, sends>>

\* ------------------------------------------------------ the specification
Draws == 0..(RandomGrid - 1)

SessionNext ==
  \/ \E id \in SessionIds : createSession(id)
  \/ \E id \in SessionIds : initializeFails(id)
  \/ \E id \in SessionIds : onQr(id)
  \/ \E id \in SessionIds : onAuthenticated(id)
  \/ \E id \in SessionIds : onReady(id)
  \/ \E id \in SessionIds : onDisconnected(id)
  \/ \E id \in SessionIds : logout(id)
  \/ \E id \in SessionIds : destroySession(id)

DispatchNext ==
  \/ \E j \in JobIds, ok \in BOOLEAN, u \in Draws : SendCompletes(j, ok, u)
  \/ \E j \in JobIds, u \in Draws : DelayElapsed(j, u)

\* The engine with its sessions: submissions whose data reach the dispatch
\* loop, with the default pacing range.
Next ==
  \/ SessionNext
  \/ \E id \in SessionIds, d \in LoopData :
       sendPersonalizedBulkTextMessage(id, TplName, d, Undefined)
  \/ \E id \in SessionIds, n \in NumberValues :
       sendBulkTextMessage(id, TplPlain, n, Undefined)
  \/ DispatchNext

Spec == Init /\ [][Next]_vars

\* Scheduling: a timer that was set fires, and (the assumption of the claims
\* about termination) a call of the client settles.
Fairness ==
  \A j \in JobIds :
    /\ WF_vars(\E ok \in BOOLEAN, u \in Draws : SendCompletes(j, ok, u))
    /\ WF_vars(\E u \in Draws : DelayElapsed(j, u))

FairSpec == Spec /\ Fairness

\* The engine with callers that read the job status.
ReadsNext ==
  \/ SessionNext
  \/ \E id \in SessionIds, d \in LoopData :
       sendPersonalizedBulkTextMessage(id, TplName, d, Undefined)
  \/ DispatchNext
  \/ \E j \in JobIds : getBulkJobStatus(j)
  \/ getAllBulkJobs

SpecReads == Init /\ [][ReadsNext]_vars

\* The submission path over every request shape, without the dispatch steps.
SubmitNext ==
  \/ SessionNext
  \/ \E id \in SessionIds, m \in Templates, d \in DataValues, r \in DelayRanges :
       sendPersonalizedBulkTextMessage(id, m, d, r)
  \/ \E id \in SessionIds, n \in NumberValues, r \in DelayRanges :
       sendBulkTextMessage(id, TplPlain, n, r)

SpecSubmit == Init /\ [][SubmitNext]_vars

\* The personalized submission over the validation inputs, one job at a
\* time, with its session.
ValidateNext ==
  \/ SessionNext
  \/ \E id \in SessionIds, tpl \in ValidationTemplates, data \in ValidationData :
       /\ bulkJobs = <<>>
       /\ sendPersonalizedBulkTextMessage(id, tpl, data, Undefined)

SpecValidate == Init /\ [][ValidateNext]_vars

\* The HTTP personalized submission over every body, one job at a time,
\* with its session.
BodyMessages == {Undefined, Str(<<>>), Str(TplPlain), Str(TplName)}
BodyData == DataValues \cup {Str(<<"a">>)}

HttpNext ==
  \/ SessionNext
  \/ \E id \in SessionIds, message \in BodyMessages, data \in BodyData :
       /\ bulkJobs = <<>>
       /\ ControllerSendPersonalizedBulkTextMessage(id, message, data,
                                                    Undefined)

SpecHttp == Init /\ [][HttpNext]_vars

\* Calls of replacePlaceholders on every template and record of the render
\* inputs: the call and its repetition with the same arguments.
KeyValueOf == <<"v", "a", "l", "u", "e", "O", "f">>
TplBraces == <<"{", "N", "}", "}", " ", "{", "{", "N", "}", "}", "{", "{", "}", "}">>
RenderTemplates == {TplPlain, TplName, TplTwo, TplProto, TplBraces}
RecValueOf == Obj([k \in {KeyValueOf} |-> Str(<<"A">>)])
RenderRecords ==
  (ValidationItems \ {NotAnObject})
    \cup {RecA, RecB, RecNoName, RecNoPhone, RecValueOf}

RenderInit ==
  /\ sessions = <<>>
  /\ bulkJobs = <<>>
  /\ tasks = <<>>
  /\ statusLog = <<>>
  /\ sends = <<>>
  /\ held = {}
  /\ \E message \in RenderTemplates, data \in RenderRecords :
       resp = [op |-> "arguments", message |-> message, data |-> data]

\* the first call with the arguments
RenderCall ==
  /\ resp.op = "arguments"
  /\ resp' = [op |-> "render", message |-> resp.message, data |-> resp.data,
              calls |-> <<replacePlaceholders(resp.message, resp.data)>>]
  /\ UNCHANGED <<sessions, bulkJobs, tasks, statusLog, sends, held>>

\* the same call once more
RenderAgain ==
  /\ resp.op = "render"
  /\ Len(resp.calls) = 1
  /\ resp' = [resp EXCEPT !.calls =
                Append(@, replacePlaceholders(resp.message, resp.data))]
  /\ UNCHANGED <<sessions, bulkJobs, tasks, statusLog, sends, held>>

RenderNext == RenderCall \/ RenderAgain

SpecRender == RenderInit /\ [][RenderNext]_vars

\* One job at a time, personalized or plain, over the pacing ranges a caller
\* can supply: absent, or any integer range min <= max up to MaxDelay.
MaxDelay == 3
PaceRanges ==
  {Undefined} \cup
  {r \in [tag : {"object"}, min : 0..MaxDelay, max : 0..MaxDelay] :
     r.min <= r.max}

PaceNext ==
  \/ SessionNext
  \/ \E id \in SessionIds, data \in LoopData, r \in PaceRanges :
       /\ bulkJobs = <<>>
       /\ sendPersonalizedBulkTextMessage(id, TplName, data, r)
  \/ \E id \in SessionIds, numbers \in NumberValues, r \in PaceRanges :
       /\ bulkJobs = <<>>
       /\ sendBulkTextMessage(id, TplPlain, numbers, r)
  \/ DispatchNext

SpecPace == Init /\ [][PaceNext]_vars

\* One personalized job at a time over templates with {{...}} markers whose
\* names are not made of word characters only, with its session and its
\* dispatch steps.
KeySpaced == <<"N", " ", "A">>
TplSpaced == <<"{", "{", "N", " ", "A", "}", "}">>
TplDashed == <<"{", "{", "N", "-", "A", "}", "}", " ", "{", "{", "}", "}">>
TplMixed == TplSpaced \o <<"{", "{", "N", "}", "}">>
MarkerTemplates == {TplSpaced, TplDashed, TplMixed}
RecSpaced == Obj([k \in {PhoneKey, KeySpaced} |->
                    IF k = PhoneKey THEN Str(<<"1">>) ELSE Str(<<"B">>)])
MarkerData ==
  {Arr(items) : items \in SeqsUpTo({RecA, RecNoName, RecSpaced}, MaxLen)}

MarkerNext ==
  \/ SessionNext
  \/ \E id \in SessionIds, tpl \in MarkerTemplates, data \in MarkerData :
       /\ bulkJobs = <<>>
       /\ sendPersonalizedBulkTextMessage(id, tpl, data, Undefined)
  \/ DispatchNext

SpecMarker == Init /\ [][MarkerNext]_vars

\* One job over the data arrays of the core, with its session.
OneNext ==
  \/ SessionNext
  \/ \E id \in SessionIds, data \in LoopData :
       /\ bulkJobs = <<>>
       /\ sendPersonalizedBulkTextMessage(id, TplName, data, Undefined)
  \/ \E id \in SessionIds, numbers \in NumberValues :
       /\ bulkJobs = <<>>
       /\ sendBulkTextMessage(id, TplPlain, numbers, Undefined)
  \/ DispatchNext

SpecOne == Init /\ [][OneNext]_vars
FairSpecOne == SpecOne /\ Fairness

\* One job over a longer data array, with its session.
LongLen == 3
LongData == Arr([k \in 1..LongLen |-> RecA])

LongNext ==
  \/ SessionNext
  \/ \E id \in SessionIds :
       /\ bulkJobs = <<>>
       /\ sendPersonalizedBulkTextMessage(id, TplName, LongData, Undefined)
  \/ DispatchNext

SpecLong == Init /\ [][LongNext]_vars
FairSpecLong == SpecLong /\ Fairness

\* One plain job of up to PctTotal numbers on a session that stays ready,
\* every send succeeding: the values the percentage takes.
PctNumbers == {Arr([k \in 1..n |-> Str(<<"1">>)]) : n \in 1..PctTotal}

PctNext ==
  \/ \E id \in SessionIds : createSession(id)
  \/ \E id \in SessionIds : onReady(id)
  \/ \E id \in SessionIds, n \in PctNumbers :
       /\ bulkJobs = <<>>
       /\ sendBulkTextMessage(id, TplPlain, n, Undefined)
  \/ \E j \in JobIds, u \in Draws : SendCompletes(j, TRUE, u)
  \/ \E j \in JobIds, u \in Draws : DelayElapsed(j, u)

SpecPct == Init /\ [][PctNext]_vars

\* One plain job of LargeTotal numbers on a session that stays ready, every
\* send succeeding: the percentage of a job with many recipients.
LargeTotal == 200
LargeNumbers == {Arr([k \in 1..n |-> Str(<<"1">>)]) : n \in {LargeTotal}}

LargeNext ==
  \/ \E id \in SessionIds : createSession(id)
  \/ \E id \in SessionIds : onReady(id)
  \/ \E id \in SessionIds, n \in LargeNumbers :
       /\ bulkJobs = <<>>
       /\ sendBulkTextMessage(id, TplPlain, n, Undefined)
  \/ \E j \in JobIds, u \in Draws : SendCompletes(j, TRUE, u)
  \/ \E j \in JobIds, u \in Draws : DelayElapsed(j, u)

SpecLarge == Init /\ [][LargeNext]_vars

\* A plain job and a personalized job over the same recipients and the same
\* token-free message, submitted in either order, with their sessions and
\* dispatch steps.
\* the data array [{Phone: n_0}, ..] of a numbers array [n_0, ..]
PhoneRecord(n) == Obj([k \in {PhoneKey} |-> n])
TwinData(numbers) ==
  IF numbers.tag = "undefined" THEN Undefined
  ELSE Arr([i \in DOMAIN numbers.items |-> PhoneRecord(numbers.items[i])])
TwinTemplates == {TplPlain, TplSpaced}

\* the registered jobs are over message m and recipients n
TwinOfRegistered(m, n) ==
  \A j \in DOMAIN tasks :
    /\ tasks[j].message = m
    /\ n.tag = "array"
    /\ Len(tasks[j].items) = Len(n.items)
    /\ \A i \in DOMAIN n.items :
         n.items[i] = IF tasks[j].kind = "plain" THEN tasks[j].items[i]
                      ELSE GetProp(tasks[j].items[i], PhoneKey)

TwinNext ==
  \/ SessionNext
  \/ \E id \in SessionIds, m \in TwinTemplates, n \in NumberValues :
       /\ \A j \in DOMAIN tasks : tasks[j].kind # "plain"
       /\ TwinOfRegistered(m, n)
       /\ sendBulkTextMessage(id, m, n, Undefined)
  \/ \E id \in SessionIds, m \in TwinTemplates, n \in NumberValues :
       /\ \A j \in DOMAIN tasks : tasks[j].kind # "personalized"
       /\ TwinOfRegistered(m, n)
       /\ sendPersonalizedBulkTextMessage(id, m, TwinData(n), Undefined)
  \/ DispatchNext

SpecTwin == Init /\ [][TwinNext]_vars

\* ================================================================ claims
Jobs == DOMAIN bulkJobs
Results(j) == bulkJobs[j].results
Progress(j) == bulkJobs[j].progress

\* a is a prefix of b
IsPrefix(a, b) == Len(a) <= Len(b) /\ \A k \in 1..Len(a) : a[k] = b[k]

\* the recipient of the i-th input record of job j
RecipientOf(j, i) ==
  IF tasks[j].kind = "personalized"
  THEN GetProp(tasks[j].items[i], PhoneKey)
  ELSE tasks[j].items[i]

\* C1: in every state of every job, personalized or plain, the counters sent
\* and failed add up to the number of results, which never exceeds total.
C1_ProgressInvariant ==
  \A j \in Jobs :
    /\ Progress(j).sent + Progress(j).failed = Len(Results(j))
    /\ Len(Results(j)) <= Progress(j).total

\* a personalized job mid-run or finished with one record sent and one whose
\* rendering failed
C1_Witness ==
  \E j \in Jobs :
    /\ tasks[j].kind = "personalized"
    /\ Progress(j).sent = 1
    /\ Progress(j).failed = 1
    /\ \E k \in 1..Len(Results(j)) :
         Results(j)[k].error.kind = "PlaceholderNotInDataObject"

\* C2: when every send call returns and the task is scheduled, every job
\* that was created reaches completed with one result per record, whatever
\* sends fail; the result of a record says whether its send succeeded.
C2_ResultsFollowSends ==
  \A j \in Jobs :
    \A k \in 1..Len(sends[j]) :
      LET call == sends[j][k]
      IN call.outcome # "pending" =>
           /\ call.i + 1 <= Len(Results(j))
           /\ Results(j)[call.i + 1].success = (call.outcome = "ok")

C2_Completed(j) ==
  /\ j \in Jobs
  /\ bulkJobs[j].status = "completed"
  /\ Len(Results(j)) = Progress(j).total

C2_FailureIsolation ==
  /\ []C2_ResultsFollowSends
  /\ \A j \in JobIds : (j \in Jobs) ~> C2_Completed(j)

\* a completed job whose first send failed and whose second send succeeded
C2_Witness ==
  \E j \in Jobs :
    /\ bulkJobs[j].status = "completed"
    /\ Len(Results(j)) = 2
    /\ Len(sends[j]) = 2
    /\ sends[j][1].outcome = "failed"
    /\ ~Results(j)[1].success
    /\ Results(j)[2].success

\* C3: the i-th result of a job carries the recipient of the i-th input
\* record: one result per record, in input order.
C3_OrderInvariant ==
  \A j \in Jobs :
    /\ Len(Results(j)) <= Len(tasks[j].items)
    /\ \A i \in 1..Len(Results(j)) : Results(j)[i].number = RecipientOf(j, i)

\* a job with two results for two different recipients
C3_Witness ==
  \E j \in Jobs :
    /\ Len(Results(j)) = 2
    /\ Results(j)[1].number # Results(j)[2].number

\* C4: the statuses assigned to a job are, in order, pending, running,
\* completed: every step extends a job's status log within that sequence, and
\* the job's status is the last one logged.
C4_StepFollowsLifecycle ==
  \A j \in DOMAIN bulkJobs' :
    LET before == IF j \in Jobs THEN statusLog[j] ELSE <<>>
        after == statusLog'[j]
    IN /\ IsPrefix(before, after)
       /\ IsPrefix(after, <<"pending", "running", "completed">>)
       /\ after # <<>>
       /\ bulkJobs'[j].status = after[Len(after)]

C4_StatusLifecycle == [][C4_StepFollowsLifecycle]_vars

\* a job that went through the three statuses
C4_Witness ==
  \E j \in Jobs : statusLog[j] = <<"pending", "running", "completed">>

\* C5: no job ever has status failed, also when every record fails.
C5_NoFailedStatus ==
  \A j \in Jobs : bulkJobs[j].status \in {"pending", "running", "completed"}

\* a finished job every record of which failed
C5_Witness ==
  \E j \in Jobs :
    /\ Len(Results(j)) = Progress(j).total
    /\ Progress(j).failed = Progress(j).total
    /\ Progress(j).sent = 0
    /\ tasks[j].pc = "done"

\* C6: a submission that is rejected leaves the registry as it was: no job
\* is inserted or changed and no task is started.
C6_RejectedStepKeepsRegistry ==
  (resp'.op = "submit" /\ ~resp'.success) =>
     /\ bulkJobs' = bulkJobs
     /\ tasks' = tasks
     /\ statusLog' = statusLog
     /\ sends' = sends

C6_RejectionLeavesRegistry == [][C6_RejectedStepKeepsRegistry]_vars

\* a submission rejected for a missing placeholder while a job is registered
C6_Witness ==
  /\ resp.op = "submit"
  /\ ~resp.success
  /\ resp.error.kind = "PlaceholderNotInItem"
  /\ Jobs # {}

\* C7: a step creates a job only as a submission naming a session that
\* exists and is ready; a submission naming an unknown session is answered
\* "Session not found", one naming a session in another status "Session not
\* ready", and neither creates a job.
C7_StepIsGated ==
  /\ DOMAIN bulkJobs' # Jobs =>
       /\ resp'.op = "submit"
       /\ resp'.success
       /\ resp'.sessionId \in DOMAIN sessions
       /\ sessions[resp'.sessionId] = "ready"
  /\ resp'.op = "submit" =>
       /\ resp'.sessionId \notin DOMAIN sessions =>
            /\ ~resp'.success
            /\ resp'.error = SessionNotFound
            /\ DOMAIN bulkJobs' = Jobs
       /\ (resp'.sessionId \in DOMAIN sessions
             /\ sessions[resp'.sessionId] # "ready") =>
            /\ ~resp'.success
            /\ resp'.error = SessionNotReady
            /\ DOMAIN bulkJobs' = Jobs

C7_SessionGating == [][C7_StepIsGated]_vars

\* a submission answered "Session not ready" for a disconnected session
C7_Witness ==
  /\ resp.op = "submit"
  /\ ~resp.success
  /\ resp.error = SessionNotReady
  /\ resp.sessionId \in DOMAIN sessions
  /\ sessions[resp.sessionId] = "disconnected"

\* C8 as stated: once a call of the task has found the session missing or
\* not ready, no later record of the job is sent successfully.
C8_AllLaterRecordsFail ==
  \A j \in Jobs :
    \A a, b \in 1..Len(sends[j]) :
      (a < b /\ sends[j][a].seen # "ready") => sends[j][b].outcome # "ok"

\* C8 as amended: a record whose send is attempted while the session is
\* missing or not ready is recorded as failed with that session error; the
\* job is never aborted and completes with one result per record.
C8_UnreadySendsFail ==
  \A j \in Jobs :
    /\ bulkJobs[j].status \in {"running", "completed"}
    /\ \A k \in 1..Len(sends[j]) :
         LET call == sends[j][k]
         IN call.seen # "ready" =>
              /\ call.outcome = "failed"
              /\ call.i + 1 <= Len(Results(j))
              /\ ~Results(j)[call.i + 1].success
              /\ Results(j)[call.i + 1].error =
                   (IF call.seen = "absent" THEN SessionNotFound
                    ELSE SessionNotReady)

C8_RunsToCompletion(j) ==
  /\ j \in Jobs
  /\ bulkJobs[j].status = "completed"
  /\ Len(Results(j)) = Len(tasks[j].items)

C8_SessionLossIsPerRecord ==
  /\ []C8_UnreadySendsFail
  /\ \A j \in JobIds :
       (j \in Jobs /\ SessionSeen(sessions, tasks[j].sessionId) # "ready")
         ~> C8_RunsToCompletion(j)

\* a completed job with a record that failed on a missing session and a
\* later record that was sent once the session was back
C8_Witness ==
  \E j \in Jobs :
    /\ bulkJobs[j].status = "completed"
    /\ Len(Results(j)) = LongLen
    /\ Results(j)[2].error = SessionNotFound
    /\ Results(j)[3].success

\* C9: a job record that a status read returned does not change while the
\* caller holds it.
C9_HeldRecordKeepsValue ==
  \A j \in held : held' = held => bulkJobs'[j] = bulkJobs[j]

C9_SnapshotIsCopy == [][C9_HeldRecordKeepsValue]_vars

\* round(100 * k / total), halves rounded up, in exact arithmetic
ExactPercentage(k, total) == (200 * k + total) \div (2 * total)

\* C10: percentage is round(100 * (sent + failed) / total) with halves
\* rounded up, after every append and (0) at creation.
C10_PercentageIsExact ==
  \A j \in Jobs :
    Progress(j).percentage =
      ExactPercentage(Progress(j).sent + Progress(j).failed, Progress(j).total)

\* ---------------------------------------------------------------- C11..C20
\* the notions the claims about validate use: key means own key
OwnKey(item, key) == item.tag = "object" /\ key \in DOMAIN item.fields
Tokens(tpl) == Distinct(Matches(tpl, 1))
HasPhone(item) ==
  /\ OwnKey(item, PhoneKey)
  /\ item.fields[PhoneKey].tag = "string"
  /\ item.fields[PhoneKey].chars # <<>>
ValidRecord(item, tpl) ==
  /\ HasPhone(item)
  /\ \A k \in 1..Len(Tokens(tpl)) : OwnKey(item, Tokens(tpl)[k])

\* C11: a submission on a ready session whose record i is an object without
\* a Phone (no key, or empty), every record before i being valid, is answered
\* with MissingPhone(i), also when record i lacks a token of the template.
C11_StepReportsMissingPhone ==
  \A id \in SessionIds, tpl \in ValidationTemplates, data \in ValidationData :
    \A i \in 1..MaxLen :
      ( /\ resp'.op = "submit"
        /\ SessionSeen(sessions, id) = "ready"
        /\ data.tag = "array"
        /\ i <= Len(data.items)
        /\ data.items[i].tag = "object"
        /\ ~HasPhone(data.items[i])
        /\ \A h \in 1..(i - 1) : ValidRecord(data.items[h], tpl)
        /\ sendPersonalizedBulkTextMessage(id, tpl, data, Undefined) )
      => /\ resp'.error = MissingPhoneError(i - 1)
         /\ bulkJobs' = bulkJobs

C11_PhoneCheckedFirst == [][C11_StepReportsMissingPhone]_vars

\* a rejection for a missing Phone at the second record
C11_Witness ==
  /\ resp.op = "submit"
  /\ resp.error = MissingPhoneError(1)

\* the first token of the template, in order of first occurrence, that is not
\* a key of the item
FirstAbsentToken(item, tpl) ==
  Tokens(tpl)[CHOOSE k \in 1..Len(Tokens(tpl)) :
                /\ ~OwnKey(item, Tokens(tpl)[k])
                /\ \A h \in 1..(k - 1) : OwnKey(item, Tokens(tpl)[h])]

\* C12: a submission on a ready session whose records all have a Phone
\* succeeds iff every token of the template is a key of every record;
\* otherwise it is answered with MissingPlaceholder(name, i), i the first
\* record missing a token and name the first token record i has no key for.
C12_StepMatchesTokens ==
  \A id \in SessionIds, tpl \in ValidationTemplates, data \in ValidationData :
    ( /\ resp'.op = "submit"
      /\ SessionSeen(sessions, id) = "ready"
      /\ data.tag = "array"
      /\ Len(data.items) > 0
      /\ \A i \in 1..Len(data.items) : HasPhone(data.items[i])
      /\ sendPersonalizedBulkTextMessage(id, tpl, data, Undefined) )
    => LET bad == {i \in 1..Len(data.items) : ~ValidRecord(data.items[i], tpl)}
       IN IF bad = {}
          THEN resp'.success
          ELSE LET i == CHOOSE i \in bad : \A h \in bad : i <= h
               IN resp'.error =
                    MissingPlaceholderError(
                      FirstAbsentToken(data.items[i], tpl), i - 1)

C12_PlaceholderCheck == [][C12_StepMatchesTokens]_vars

\* C13: a personalized-bulk request on a ready session, with a message,
\* whose data is missing, not an array or empty is answered with the error
\* "Data array is required and must not be empty", and no job is created.
C13_StepReportsEmptyData ==
  \A id \in SessionIds, message \in BodyMessages, data \in BodyData :
    ( /\ resp'.op = "submit"
      /\ SessionSeen(sessions, id) = "ready"
      /\ message.tag = "string" /\ message.chars # <<>>
      /\ (data.tag # "array" \/ Len(data.items) = 0)
      /\ ControllerSendPersonalizedBulkTextMessage(id, message, data,
                                                   Undefined) )
    => /\ resp'.error = EmptyDataError
       /\ bulkJobs' = bulkJobs

C13_EmptyDataRejected == [][C13_StepReportsEmptyData]_vars

\* the template with every {{Token}} occurrence replaced by the string of
\* the record's value for Token, from position p on
RECURSIVE Substituted(_, _, _)
Substituted(tpl, rec, p) ==
  IF p > Len(tpl) THEN <<>>
  ELSE IF MatchAt(tpl, p) > 0
  THEN ToJsString(rec.fields[SubSeq(tpl, p + 2, p + 1 + MatchAt(tpl, p))])
         \o Substituted(tpl, rec, p + MatchAt(tpl, p) + 4)
  ELSE <<tpl[p]>> \o Substituted(tpl, rec, p + 1)

\* C14: for a template and a record in which every token of the template is
\* a key of the record, replacePlaceholders returns the template with every
\* {{Token}} occurrence, repeated ones included, replaced by the string of
\* record[Token] and all other text unchanged, and returns the same on a
\* repeated call.
C14_RenderCorrect ==
  ( /\ resp.op = "render"
    /\ \A k \in 1..Len(Tokens(resp.message)) :
         OwnKey(resp.data, Tokens(resp.message)[k]) )
  => \A c \in 1..Len(resp.calls) :
       resp.calls[c] = Ok(Substituted(resp.message, resp.data, 1))

\* the personalized jobs, and whether record k of job j renders
PersonalizedJobs == {j \in Jobs : tasks[j].kind = "personalized"}
Renders(j, k) == replacePlaceholders(tasks[j].message, tasks[j].items[k]).ok

C16_SentAtMostOnce ==
  \A j \in DOMAIN sends :
    \A a, b \in 1..Len(sends[j]) :
      a < b => sends[j][a].i < sends[j][b].i

\* a task that ended after the send of its first record failed and its
\* second record was sent
C16_Witness ==
  \E j \in DOMAIN sends :
    /\ tasks[j].pc = "done"
    /\ Len(sends[j]) = 2
    /\ sends[j][1].outcome = "failed"
    /\ sends[j][2].outcome = "ok"

\* the range a request asks for: its delayRange, [2, 9] when it has none
RequestedRange(r) ==
  IF r = Undefined THEN [min |-> 2, max |-> 9]
  ELSE [min |-> r.min, max |-> r.max]

\* C17: the task of a job paces with the range its request asked for, [2, 9]
\* when the request has no delayRange, keeps that range, and every delay it
\* waits is an integer d with min <= d <= max.
C17_StepPacesWithinRange ==
  /\ \A j \in DOMAIN tasks' :
       tasks'[j].pc = "delay" =>
         /\ tasks'[j].delay \in Int
         /\ tasks'[j].delayRange.min <= tasks'[j].delay
         /\ tasks'[j].delay <= tasks'[j].delayRange.max
  /\ \A j \in DOMAIN tasks : tasks'[j].delayRange = tasks[j].delayRange
  /\ \A id \in SessionIds, r \in PaceRanges :
       /\ \A data \in LoopData :
            ( /\ resp'.op = "submit" /\ resp'.success
              /\ sendPersonalizedBulkTextMessage(id, TplName, data, r) )
            => tasks'[resp'.jobId].delayRange = RequestedRange(r)
       /\ \A numbers \in NumberValues :
            ( /\ resp'.op = "submit" /\ resp'.success
              /\ sendBulkTextMessage(id, TplPlain, numbers, r) )
            => tasks'[resp'.jobId].delayRange = RequestedRange(r)

C17_DelayWithinRange == [][C17_StepPacesWithinRange]_vars

\* a task waits the largest delay of a range the caller supplied
C17_Witness ==
  \E j \in DOMAIN tasks :
    /\ tasks[j].pc = "delay"
    /\ tasks[j].delayRange = [min |-> 1, max |-> 2]
    /\ tasks[j].delay = 2

\* the task of job j hands a message to the client in this step
Transmits(j) ==
  /\ j \in DOMAIN sends'
  /\ Len(sends'[j]) > (IF j \in DOMAIN sends THEN Len(sends[j]) ELSE 0)
  /\ sends'[j][Len(sends'[j])].outcome = "pending"

\* C18: two consecutive transmissions of bulk jobs on one session are
\* separated by a pacing delay of at least delayRange.min seconds, also when
\* several jobs run on the session together: a job hands a message to the
\* client, while another job is running on the same session, only at the end
\* of a pacing delay of at least min.
C18_StepTransmitsAfterDelay ==
  \A j \in JobIds :
    ( /\ Transmits(j)
      /\ \E other \in DOMAIN tasks \ {j} :
           /\ tasks[other].sessionId = tasks'[j].sessionId
           /\ tasks[other].pc \in {"sending", "delay"} )
    => /\ j \in DOMAIN tasks
       /\ tasks[j].pc = "delay"
       /\ tasks[j].delay >= tasks[j].delayRange.min

C18_SessionIsPaced == [][C18_StepTransmitsAfterDelay]_vars

\* C19: a completed job is immutable: no step changes its record (status,
\* progress with sent, failed and percentage, results, completedAt), and it
\* stays in the registry.
C19_StepKeepsCompletedJobs ==
  \A j \in Jobs :
    bulkJobs[j].status = "completed" =>
      /\ j \in DOMAIN bulkJobs'
      /\ bulkJobs'[j] = bulkJobs[j]

C19_CompletedIsImmutable == [][C19_StepKeepsCompletedJobs]_vars

\* two completed jobs, the session having been removed while the second
\* one was running
C19_Witness ==
  /\ sessions = <<>>
  /\ \E j \in Jobs :
       /\ j + 1 \in Jobs
       /\ bulkJobs[j].status = "completed"
       /\ Len(Results(j)) = 2
       /\ bulkJobs[j + 1].status = "completed"
       /\ Len(sends[j + 1]) = 2
       /\ sends[j + 1][1].seen = "ready"
       /\ sends[j + 1][2].seen # "ready"

\* the results of job j before the step (none before the job is created)
ResultsBefore(j) == IF j \in Jobs THEN Results(j) ELSE <<>>

\* C20: results is append-only. A step of the model is one turn of the event
\* loop: it leaves the results of a job as they are or appends at their end,
\* keeping every element already there in its place and unchanged; what it
\* appends is at most one result of a send, each further element being the
\* result of a record whose rendering threw, pushed by the catch in the same
\* turn, one push per record.
C20_StepAppendsResults ==
  \A j \in DOMAIN bulkJobs' :
    LET before == ResultsBefore(j)
        after == bulkJobs'[j].results
        added == (Len(before) + 1)..Len(after)
    IN /\ Jobs \subseteq DOMAIN bulkJobs'
       /\ IsPrefix(before, after)
       /\ Cardinality({k \in added :
                         after[k].personalizedMessage # ErrorMarker}) <= 1
       /\ \A k \in added :
            after[k].personalizedMessage = ErrorMarker =>
              ~replacePlaceholders(tasks'[j].message, tasks'[j].items[k]).ok

C21_StepKeepsJobs == Jobs \subseteq DOMAIN bulkJobs'

DispatchStepOf(j) ==
  \/ \E ok \in BOOLEAN, u \in Draws : SendCompletes(j, ok, u)
  \/ \E u \in Draws : DelayElapsed(j, u)

\* C22: the record of a job (status, counters, results, timestamps) is
\* changed only by a step of that job's own dispatch task, and such a step
\* leaves the record of every other job as it is, whatever the interleaving
\* of the jobs.
C22_StepWritesOwnJobOnly ==
  \A j \in Jobs :
    bulkJobs'[j] # bulkJobs[j] =>
      /\ DispatchStepOf(j)
      /\ \A other \in Jobs \ {j} : bulkJobs'[other] = bulkJobs[other]

C22_JobsAreIndependent == [][C22_StepWritesOwnJobOnly]_vars

\* two jobs running together, each with a result, one sent and one failed
C22_Witness ==
  \E j, other \in Jobs :
    /\ j # other
    /\ bulkJobs[j].status = "running"
    /\ bulkJobs[other].status = "running"
    /\ Progress(j).sent = 1 /\ Progress(j).failed = 0
    /\ Progress(other).sent = 0 /\ Progress(other).failed = 1

\* C23: while the task of a job is suspended in its pacing delay, the next
\* dispatch step of every other job can be taken (its send can settle either
\* way, its own delay can end), status reads are answered, and a submission
\* is answered: accepted on a ready session, rejected otherwise.
C23_DelaySuspendsOwnTaskOnly ==
  \A j \in DOMAIN tasks :
    tasks[j].pc = "delay" =>
      /\ \A other \in DOMAIN tasks \ {j} :
           /\ tasks[other].pc = "sending" =>
                \A ok \in BOOLEAN :
                  ENABLED (\E u \in Draws : SendCompletes(other, ok, u))
           /\ tasks[other].pc = "delay" =>
                ENABLED (\E u \in Draws : DelayElapsed(other, u))
      /\ \A k \in JobIds : ENABLED getBulkJobStatus(k)
      /\ ENABLED getAllBulkJobs
      /\ \A id \in SessionIds :
           /\ (FreshJobId \in JobIds /\ SessionSeen(sessions, id) = "ready") =>
                ENABLED ( /\ sendPersonalizedBulkTextMessage(
                               id, TplName, Arr(<<RecA>>), Undefined)
                          /\ resp'.success )
           /\ SessionSeen(sessions, id) # "ready" =>
                ENABLED ( /\ sendPersonalizedBulkTextMessage(
                               id, TplName, Arr(<<RecA>>), Undefined)
                          /\ ~resp'.success )

\* one job in its delay while the send of another is in flight, and one job
\* in its delay on a ready session while a job can still be submitted
C23_Witness ==
  \E j \in DOMAIN tasks :
    /\ tasks[j].pc = "delay"
    /\ \/ \E other \in DOMAIN tasks \ {j} :
            tasks[other].pc = "sending" /\ Len(Results(other)) = 1
       \/ /\ FreshJobId \in JobIds
          /\ SessionSeen(sessions, tasks[j].sessionId) = "ready"

\* the least integer not below x / 2
CeilOfHalf(x) == CHOOSE n \in 0..x : 2 * n >= x /\ 2 * (n - 1) < x

\* what the accepted submission of total records with the range r is to
\* answer and record
EstimateIsExact(total, r) ==
  LET range == RequestedRange(r)
      expected == CeilOfHalf(total * (range.min + range.max))
      job == bulkJobs'[resp'.jobId]
  IN /\ resp'.estimatedDuration = expected
     /\ job.estimatedCompletion = job.startedAt + expected * 1000

\* C24: an accepted submission, personalized or plain, of total records with
\* the range [min, max] answers estimatedDuration =
\* ceil(total * (min + max) / 2) seconds and records estimatedCompletion as
\* that many seconds after the creation time.
C24_StepEstimates ==
  \A id \in SessionIds, r \in PaceRanges :
    /\ \A data \in LoopData :
         ( /\ resp'.op = "submit" /\ resp'.success
           /\ sendPersonalizedBulkTextMessage(id, TplName, data, r) )
         => EstimateIsExact(Len(data.items), r)
    /\ \A numbers \in NumberValues :
         ( /\ resp'.op = "submit" /\ resp'.success
           /\ sendBulkTextMessage(id, TplPlain, numbers, r) )
         => EstimateIsExact(Len(numbers.items), r)

C24_EstimatedDuration == [][C24_StepEstimates]_vars

\* one record with the default range [2, 9]: ceil(5.5) = 6 seconds
C24_Witness ==
  /\ resp.op = "submit"
  /\ resp.success
  /\ resp.totalNumbers = 1
  /\ resp.estimatedDuration = 6
  /\ tasks[resp.jobId].delayRange = [min |-> 2, max |-> 9]
  /\ bulkJobs[resp.jobId].estimatedCompletion = 6000

\* C25: a personalized submission over HTTP with a well-formed body that
\* names a session that does not exist is answered with status 404 and the
\* error "Session not found".
C25_StepAnswersNotFound ==
  \A id \in SessionIds, message \in BodyMessages, data \in BodyData :
    ( /\ resp'.op = "submit"
      /\ id \notin DOMAIN sessions
      /\ message.tag = "string" /\ message.chars # <<>>
      /\ data.tag = "array" /\ Len(data.items) > 0
      /\ ControllerSendPersonalizedBulkTextMessage(id, message, data, Undefined) )
    => /\ resp'.error = SessionNotFound
       /\ HttpStatus(resp') = 404

C25_MissingSessionIs404 == [][C25_StepAnswersNotFound]_vars

\* C26: a job that has reached completed is eventually removed from the
\* registry.
C26_CompletedJobsCleanedUp ==
  \A j \in JobIds :
    (j \in Jobs /\ bulkJobs[j].status = "completed") ~> (j \notin Jobs)

\* record item passes the checks validate makes on it: an object with a
\* non-empty Phone that has a property for every token of the template
PassesChecks(item, tpl) ==
  /\ HasPhone(item)
  /\ \A k \in 1..Len(Tokens(tpl)) : HasProp(item, Tokens(tpl)[k])

\* C27 (as stated): validation makes the InvalidItem/MissingPhone check on
\* every record before any placeholder check, so a submission is answered
\* with MissingPlaceholder(name, i) only when every record of the data, those
\* after i included, is a keyed collection with a non-empty Phone.
C27_StepPhonePassFirst ==
  \A id \in SessionIds, tpl \in ValidationTemplates, data \in ValidationData :
    ( /\ resp'.op = "submit"
      /\ resp'.error.kind = "PlaceholderNotInItem"
      /\ data.tag = "array"
      /\ sendPersonalizedBulkTextMessage(id, tpl, data, Undefined) )
    => \A i \in 1..Len(data.items) : HasPhone(data.items[i])

C27_OrderedPasses == [][C27_StepPhonePassFirst]_vars

\* C27 (amended): validation goes record by record. When record i has a
\* Phone and lacks a token, every record before i passing its checks, the
\* submission is answered with MissingPlaceholder(name, i) whatever the
\* records after i are; and an answer MissingPlaceholder(name, i) tells that
\* the records up to i have a Phone, nothing about those after i.
C27_StepChecksRecordByRecord ==
  \A id \in SessionIds, tpl \in ValidationTemplates, data \in ValidationData :
    /\ \A i \in 1..MaxLen :
         ( /\ resp'.op = "submit"
           /\ SessionSeen(sessions, id) = "ready"
           /\ data.tag = "array"
           /\ i <= Len(data.items)
           /\ HasPhone(data.items[i])
           /\ ~PassesChecks(data.items[i], tpl)
           /\ \A h \in 1..(i - 1) : PassesChecks(data.items[h], tpl)
           /\ sendPersonalizedBulkTextMessage(id, tpl, data, Undefined) )
         => /\ resp'.error.kind = "PlaceholderNotInItem"
            /\ resp'.error.index = i - 1
            /\ ~HasProp(data.items[i], resp'.error.name)
            /\ bulkJobs' = bulkJobs
    /\ ( /\ resp'.op = "submit"
         /\ resp'.error.kind = "PlaceholderNotInItem"
         /\ data.tag = "array"
         /\ sendPersonalizedBulkTextMessage(id, tpl, data, Undefined) )
       => \A h \in 1..(resp'.error.index + 1) : HasPhone(data.items[h])

C27_RecordByRecord == [][C27_StepChecksRecordByRecord]_vars

\* a rejection for a token the first record lacks
C27_Witness ==
  /\ resp.op = "submit"
  /\ resp.error = MissingPlaceholderError(KeyA, 0)

\* the number of records of job j whose processing has begun, before and
\* after the step
StartedBefore(j) ==
  IF j \in Jobs
  THEN Len(Results(j)) + (IF tasks[j].pc = "sending" THEN 1 ELSE 0)
  ELSE 0
StartedAfter(j) ==
  Len(bulkJobs'[j].results) + (IF tasks'[j].pc = "sending" THEN 1 ELSE 0)

\* the task of job j is in its delay only after a result that is not the
\* last one
NoDelayAfterLast(j) ==
  tasks'[j].pc = "delay" =>
    /\ Len(bulkJobs'[j].results) >= 1
    /\ Len(bulkJobs'[j].results) < bulkJobs'[j].progress.total

\* C28 (as stated): after appending the result of a record that is not the
\* last one the task is in its pacing delay, also when the record failed to
\* render; a later record starts only at the end of a delay, one record per
\* delay; no delay follows the last record.
C28_StepPacesEveryRecord ==
  \A j \in DOMAIN bulkJobs' :
    /\ NoDelayAfterLast(j)
    /\ ( /\ Len(bulkJobs'[j].results) > Len(ResultsBefore(j))
         /\ Len(bulkJobs'[j].results) < bulkJobs'[j].progress.total )
       => tasks'[j].pc = "delay"
    /\ StartedAfter(j) <= StartedBefore(j) + 1
    /\ (StartedAfter(j) > StartedBefore(j) /\ StartedBefore(j) >= 1)
       => tasks[j].pc = "delay"

C28_StepPacesRenderedRecords ==
  \A j \in DOMAIN bulkJobs' :
    LET after == bulkJobs'[j].results
        Caught(k) == after[k].personalizedMessage = ErrorMarker
    IN /\ NoDelayAfterLast(j)
       /\ tasks'[j].pc = "delay" => ~Caught(Len(after))
       /\ ( /\ Len(after) > Len(ResultsBefore(j))
            /\ Len(after) < bulkJobs'[j].progress.total
            /\ ~Caught(Len(after)) )
          => tasks'[j].pc = "delay"
       /\ \A k \in (Len(ResultsBefore(j)) + 1)..Len(after) :
            (Caught(k) /\ k < bulkJobs'[j].progress.total)
              => StartedAfter(j) > k
       /\ \A k \in (StartedBefore(j) + 1)..(StartedAfter(j) - 1) : Caught(k)
       /\ (StartedAfter(j) > StartedBefore(j) /\ StartedBefore(j) >= 1)
          => tasks[j].pc = "delay"

C29_PendingAtReturn ==
  (resp.op = "submit" /\ resp.success) =>
    /\ bulkJobs[resp.jobId].status = "pending"
    /\ statusLog[resp.jobId] = <<"pending">>
    /\ Progress(resp.jobId).sent = 0
    /\ Progress(resp.jobId).failed = 0
    /\ Results(resp.jobId) = <<>>

\* C30: every job in the registry was approved by validate; each of its
\* records renders, and none of its results is the one the catch pushes for
\* a rendering that threw.
C30_ApprovedDataRenders ==
  \A j \in PersonalizedJobs :
    /\ validatePersonalizedData(Arr(tasks[j].items), tasks[j].message).ok
    /\ \A k \in 1..Len(tasks[j].items) : Renders(j, k)
    /\ \A k \in 1..Len(Results(j)) :
         /\ Results(j)[k].personalizedMessage # ErrorMarker
         /\ Results(j)[k].error.kind # "PlaceholderNotInDataObject"

\* ---------------------------------------------------------------- C31..C38
\* the error replacePlaceholders throws for record k of job j
RenderErrorOf(j, k) ==
  replacePlaceholders(tasks[j].message, tasks[j].items[k]).error

\* C31: a record of a personalized job whose rendering throws has, once the
\* loop has reached it, exactly one result, at the record's own position,
\* with success false, the render error and the error marker as its text;
\* failed counts it; sendTextMessage is never called for it; and the loop
\* has gone on to the next record.
C31_RenderFailureIsRecorded ==
  \A j \in PersonalizedJobs :
    /\ \A k \in 1..Len(tasks[j].items) :
         ~Renders(j, k) =>
           /\ \A s \in 1..Len(sends[j]) : sends[j][s].i # k - 1
           /\ Len(Results(j)) >= k =>
                /\ Results(j)[k] =
                     [number |-> GetProp(tasks[j].items[k], PhoneKey),
                      success |-> FALSE,
                      messageId |-> "undefined",
                      error |-> RenderErrorOf(j, k),
                      personalizedMessage |-> ErrorMarker]
                /\ (k < Len(tasks[j].items) /\ Len(Results(j)) = k)
                     => tasks[j].pc = "sending"
                /\ (k = Len(tasks[j].items)) => tasks[j].pc = "done"
    /\ Progress(j).failed >=
         Cardinality({k \in 1..Len(Results(j)) : ~Renders(j, k)})
    /\ Len(Results(j)) <= Len(tasks[j].items)

\* a completed job whose first record failed to render and whose second
\* record was sent
C31_Witness ==
  \E j \in PersonalizedJobs :
    /\ tasks[j].pc = "done"
    /\ Len(Results(j)) = 2
    /\ ~Renders(j, 1) /\ Renders(j, 2)
    /\ Results(j)[1].personalizedMessage = ErrorMarker
    /\ Results(j)[2].success
    /\ Progress(j).failed = 1 /\ Progress(j).sent = 1

\* C32: the records of a job are processed one after the other: a call of
\* sendTextMessage is for the record right after the results appended so
\* far, at most one call of a job is unsettled, it is the last one the task
\* made, and it is unsettled exactly while the task awaits it.
C32_OneSendAtATime ==
  \A j \in DOMAIN sends :
    LET pending == {s \in 1..Len(sends[j]) : sends[j][s].outcome = "pending"}
    IN /\ Cardinality(pending) <= 1
       /\ pending \subseteq {Len(sends[j])}
       /\ (pending # {}) = (tasks[j].pc = "sending")
       /\ \A s \in pending : sends[j][s].i = Len(Results(j))
       /\ \A s \in 1..Len(sends[j]) :
            /\ sends[j][s].i <= Len(Results(j))
            /\ sends[j][s].outcome # "pending" =>
                 /\ sends[j][s].i < Len(Results(j))
                 /\ Results(j)[sends[j][s].i + 1].success =
                      (sends[j][s].outcome = "ok")

\* the send of the second record is in flight, the first having settled
C32_Witness ==
  \E j \in DOMAIN sends :
    /\ Len(sends[j]) = 2
    /\ sends[j][1].outcome = "ok"
    /\ sends[j][2].outcome = "pending"
    /\ Len(Results(j)) = 1

\* the text a record is to get for a marker template: the markers verbatim,
\* the word token {{N}} of TplMixed replaced
MarkerText(tpl, item) ==
  IF tpl = TplMixed THEN TplSpaced \o ToJsString(item.fields[KeyN]) ELSE tpl

\* C33: a {{...}} marker whose name has a character that is not a letter, a
\* digit or an underscore is not a placeholder. A submission whose records
\* have a Phone (and the key N where the template has the token {{N}}) is
\* accepted whether or not a record has a key named like the marker, and
\* every message handed to the client and recorded has the marker verbatim.
C33_StepKeepsMarkers ==
  /\ \A id \in SessionIds, tpl \in MarkerTemplates, data \in MarkerData :
       ( /\ resp'.op = "submit"
         /\ SessionSeen(sessions, id) = "ready"
         /\ Len(data.items) > 0
         /\ \A i \in 1..Len(data.items) :
              /\ HasPhone(data.items[i])
              /\ tpl = TplMixed => OwnKey(data.items[i], KeyN)
         /\ sendPersonalizedBulkTextMessage(id, tpl, data, Undefined) )
       => resp'.success
  /\ \A j \in DOMAIN bulkJobs' :
       /\ \A k \in 1..Len(bulkJobs'[j].results) :
            bulkJobs'[j].results[k].personalizedMessage =
              MarkerText(tasks'[j].message, tasks'[j].items[k])
       /\ tasks'[j].pc = "sending" =>
            tasks'[j].text =
              MarkerText(tasks'[j].message, tasks'[j].items[tasks'[j].i + 1])

C34_CompletedJobIsWhole ==
  \A j \in Jobs :
    /\ bulkJobs[j].status = "completed" =>
         /\ Len(Results(j)) = Progress(j).total
         /\ Progress(j).sent + Progress(j).failed = Progress(j).total
         /\ Progress(j).percentage = 100
         /\ bulkJobs[j].completedAt = "set"
    /\ bulkJobs[j].status \in {"pending", "running"} =>
         bulkJobs[j].completedAt = "unset"

\* one job is completed with a failed and a sent record while another is
\* still running
C34_Witness ==
  \E j, k \in Jobs :
    /\ bulkJobs[j].status = "completed"
    /\ Progress(j).sent = 1
    /\ Progress(j).failed = 1
    /\ bulkJobs[j].completedAt = "set"
    /\ bulkJobs[k].status = "running"
    /\ Len(Results(k)) = 1

\* the number of results of job j whose success is b
CountSuccess(j, b) ==
  Cardinality({k \in 1..Len(Results(j)) : Results(j)[k].success = b})

\* C35: in every state of every job, sent is the number of results with
\* success true and failed the number of results with success false.
C35_CountersMatchResults ==
  \A j \in Jobs :
    /\ Progress(j).sent = CountSuccess(j, TRUE)
    /\ Progress(j).failed = CountSuccess(j, FALSE)

\* a job whose first send was refused and whose second was accepted, and a
\* personalized job whose first record did not render
C35_Witness ==
  /\ \E j \in Jobs :
       /\ Len(Results(j)) = 2
       /\ ~Results(j)[1].success
       /\ Results(j)[1].personalizedMessage # ErrorMarker
       /\ Results(j)[2].success
  /\ \E j \in PersonalizedJobs :
       /\ Len(Results(j)) >= 1
       /\ ~Renders(j, 1)
       /\ Progress(j).failed >= 1

\* C36: no job stays pending: the task's start-up lookup of the session and
\* the job never returns early for a job that was just created, whatever
\* logout or destroySession of its session is interleaved with the
\* submission. Every registered job has left pending for running and its
\* task is past the lookup.
C36_TaskAlwaysStarts ==
  \A j \in Jobs :
    /\ tasks[j].pc \in {"sending", "delay", "done"}
    /\ bulkJobs[j].status # "pending"
    /\ Len(statusLog[j]) >= 2
    /\ statusLog[j][1] = "pending"
    /\ statusLog[j][2] = "running"

\* the session of a job was removed right after the submission: the task is
\* in its first send, the job is running
C36_Witness ==
  \E j \in Jobs :
    /\ tasks[j].sessionId \notin DOMAIN sessions
    /\ tasks[j].pc = "sending"
    /\ Len(Results(j)) = 0
    /\ bulkJobs[j].status = "running"
    /\ statusLog[j] = <<"pending", "running">>

\* C37: percentage reaches 100 only when every record has been processed: a
\* job with fewer results than total has a percentage below 100.
C37_HundredOnlyWhenDone ==
  \A j \in Jobs :
    Len(Results(j)) < Progress(j).total => Progress(j).percentage < 100

\* the personalized counterpart of the context of a plain job: the same job
\* record and position, the task over [{Phone: n_i}]
TwinContext(c) ==
  [c EXCEPT !.task.kind = "personalized",
            !.task.items = [i \in DOMAIN @ |-> PhoneRecord(@[i])]]

PlainJobs == {j \in Jobs : tasks[j].kind = "plain"}

\* the same job state but for the identifier
SameJobState(j, k) ==
  /\ bulkJobs[k] = [bulkJobs[j] EXCEPT !.jobId = k]
  /\ statusLog[k] = statusLog[j]

\* C38: a plain job over numbers [n_0..n_k] with message m goes through the
\* same job states (status, sent, failed, percentage, every result's number,
\* success and personalizedMessage) as a personalized job over
\* [{Phone: n_i}] with template m, when m has no {{word}} token, the n_i are
\* non-empty and the client answers the same. Both submissions are accepted
\* or refused together and start alike; each step of the plain task (a send
\* settling, a delay elapsing) is matched by the same step of the
\* personalized task; and a plain and a personalized job of the registry
\* that are at the same point after the same answers have the same state.
C38_PlainIsPersonalizedWithoutTokens ==
  /\ \A id \in SessionIds, m \in TwinTemplates, n \in NumberValues \ {Undefined} :
       LET range == RangeOrDefault(Undefined)
           c == [job |-> NewJob(FreshJobId, Len(n.items),
                               EstimatedDuration(Len(n.items), range)),
                 task |-> NewTask("plain", id, m, n.items, range),
                 log |-> <<"pending">>,
                 sends |-> <<>>]
       IN /\ BulkChecks(sessions, id, n).ok
               = PersonalizedChecks(sessions, id, m, TwinData(n)).ok
          /\ BulkChecks(sessions, id, n).ok =>
               StartTask(TwinContext(c), sessions, 0)
                 = TwinContext(StartTask(c, sessions, 0))
  /\ \A j \in PlainJobs :
       LET c == Context(j)
           next == [c EXCEPT !.task.i = @ + 1, !.task.delay = 0]
       IN /\ tasks[j].pc = "sending" =>
               \A r \in {SendOk, SendFailed(ClientError)}, u \in Draws :
                 AfterSend(TwinContext(c), r, u) = TwinContext(AfterSend(c, r, u))
          /\ tasks[j].pc = "delay" =>
               \A u \in Draws :
                 RunLoop(TwinContext(next), sessions, u)
                   = TwinContext(RunLoop(next, sessions, u))
  /\ \A j \in PlainJobs, k \in PersonalizedJobs :
       ( /\ tasks[k] = TwinContext(Context(j)).task
         /\ sends[k] = sends[j] )
       => SameJobState(j, k)

\* a plain job and a personalized job over the same two recipients and the
\* message with a marker have both completed, the first send refused by the
\* client and the second accepted
C38_Witness ==
  \E j \in PlainJobs, k \in PersonalizedJobs :
    /\ tasks[j].message = TplSpaced
    /\ tasks[k] = TwinContext(Context(j)).task
    /\ sends[k] = sends[j]
    /\ bulkJobs[j].status = "completed"
    /\ Len(Results(j)) = 2
    /\ ~Results(j)[1].success
    /\ Results(j)[2].success
    /\ Results(k)[2].personalizedMessage = TplSpaced

====
